---- MODULE Spec2Model ----
(***************************************************************************)
(* claude-code-ntfy: the backstop (inactivity) notifier, the output        *)
(* monitor that feeds it and the application run loop that wires them.     *)
(*                                                                         *)
(*   pkg/notification/backstop_notifier.go   BackstopNotifier              *)
(*   pkg/monitor (output monitor)            OutputMonitor.HandleData      *)
(*   pkg/monitor/terminal_detector.go        TerminalSequenceDetector      *)
(*   cmd/claude-code-ntfy (app wiring)       NewDependencies, Run          *)
(*   pkg/process (PTY manager)               PTYManager, outputReader      *)
(*   pkg/process/manager.go                  Manager Start, Wait, Stop     *)
(*   cmd/claude-code-ntfy/main.go            main: signals, panic, os.Exit *)
(*   pkg/notification/batcher.go             Batcher Add, flush, Flush, Stop*)
(*   pkg/notification (rate limiter)         TokenBucketRateLimiter        *)
(*                                                                         *)
(* Every BackstopNotifier method holds bn.mu for its whole body, so each   *)
(* is one atomic step.  A time.AfterFunc timer is two steps: the runtime   *)
(* expires it and starts the callback in its own goroutine (TimerExpire),  *)
(* and the callback later obtains bn.mu and runs (TimerCallback).          *)
(* timer.Stop() only prevents expiry; it does not recall a callback that   *)
(* has already been started.  Beside bn.timer the model counts the timers  *)
(* the runtime holds scheduled (live) and the started callbacks that       *)
(* belong to the timer bn.timer points to (fresh); the other started       *)
(* callbacks are those of timers stopped or replaced after they expired.   *)
(* HandleData is a sequence of such steps (hdPc): DetectSequences and the  *)
(* ResetSession it may trigger, MarkActivity, then one processLine per     *)
(* complete line.                                                          *)
(* The write-only fields lastNotificationTime and lastOutputTime are not   *)
(* part of the state.                                                      *)
(*                                                                         *)
(* Eleven specifications share the variables:                              *)
(*   Spec        the notifier and the output monitor under every config,   *)
(*               ended by os.Exit or by a panic's deferred Close           *)
(*   SpecIO      the same with the input pump and bells that do not end    *)
(*               their line, for one configuration                         *)
(*   SpecReader  outputReader.Read over every chunking of the child's      *)
(*               writes                                                    *)
(*   SpecProc    the transport from Start to the end of the process: main, *)
(*               the CopyIO goroutine and its pumps, the shutdown-signal   *)
(*               goroutine, signal forwarding and the child                *)
(*   SpecCli     main before app.Run: the split of os.Args, flag parsing,  *)
(*               config.Load, the overrides and the argument merge         *)
(*   SpecLock    the startup Send, the timer callback and the output pump  *)
(*               with bn.mu and om.mu as explicit locks, under the fairness*)
(*               the Go mutex and scheduler give                           *)
(*   SpecBatch   the Batcher: Add, the AfterFunc flush, Flush and Stop     *)
(*   SpecBucket  the token bucket: Allow, Reset and the passing of time    *)
(*   SpecDetect  DetectSequences over every chunking of a small alphabet   *)
(*   SpecRead    one outputReader.Read per caller buffer size              *)
(*   SpecRun     Application.Run: the startup notification, then Start     *)
(* In each the variables of the other parts keep their initial values.     *)
(***************************************************************************)
EXTENDS Integers, Sequences, FiniteSets, TLC

\* ------------------------------------------------------------------ bounds
MaxTime == 5
MaxTimeout == 2
MaxStream == 4
MaxInput == 1
MaxWrites == 2
MaxArgs == 3
LockTime == 3
LockStream == 3
MaxAdds == 3
MaxFlushes == 2
MaxCapacity == 2
MaxRefillRate == 2
MaxCalls == 4
BucketTime == 4
MaxDetects == 4
MaxLenP == 8
MaxReads == 3

\* --------------------------------------------------------------- constants
BEL == 7
NL == 10
ESC == 27
KeepLen == 20
ReadBufLen == 32768
BufCap == 1024
BufKeep == 100
SigintStatus == 130
PanicStatus == 2

screenClearSequences ==
    { <<ESC, 91, 50, 74>>,
      <<ESC, 91, 51, 74>>,
      <<ESC, 91, 72>>,
      <<ESC, 91, 48, 74>>,
      <<ESC, 91, 49, 74>>,
      <<ESC, 99>> }

\* Chunks the child may write to the PTY: plain text, a line with a bell,
\* a terminal reset (screen clear).
Chunks == { <<120>>, <<BEL, NL>>, <<ESC, 99>> }

\* the same, and a bell with no newline after it
ChunksIO == Chunks \cup { <<BEL>> }

Timeouts == {0, MaxTimeout}

VARIABLES
    now,               \* monotonic clock
    osArgs,            \* os.Args[1:], the wrapper's command line
    envTopic,          \* CLAUDE_NOTIFY_TOPIC ("" when unset)
    envQuiet,          \* CLAUDE_NOTIFY_QUIET ("" when unset)
    envConfig,         \* CLAUDE_NOTIFY_CONFIG ("" when unset)
    defFile,           \* the config file at the default location, if any
    defaultArgs,       \* the configured default_args
    cliPc,             \* position of main before Run
    ourArgs,           \* main: the arguments kept for the wrapper's flags
    claudeArgs,        \* main: the arguments kept for the inner program
    flags,             \* main: configPath, quiet, help as parsed
    cfg,               \* the Config that Load built
    args,              \* the argument list passed to app.Run
    usage,             \* printUsage has been called
    cliExit,           \* os.Exit during startup: done and status
    timeout,           \* cfg.BackstopTimeout / bn.timeout
    quiet,             \* cfg.Quiet
    startupNotify,     \* cfg.StartupNotify
    wrapped,           \* deps.Notifier is a *BackstopNotifier
    phase,             \* position of main: created, started, running, closed, exited
    backstopSent,      \* bn.backstopSent
    timer,             \* bn.timer
    live,              \* timers scheduled with AfterFunc, not expired and not stopped
    fresh,             \* started callbacks of the timer bn.timer still points to
    inflight,          \* expired timer callbacks waiting for bn.mu
    lastActivityTime,  \* bn.lastActivityTime
    buffer,            \* TerminalSequenceDetector.buffer
    lineBuffer,        \* OutputMonitor.lineBuffer
    hdPc,              \* position of the output pump inside HandleData
    cur,               \* the chunk HandleData is processing
    todo,              \* complete lines still to be passed to processLine
    observe,           \* history: the current HandleData call and its bell
    ptyIn,             \* bytes the input pump has copied from stdin to the PTY
    marker,            \* CLAUDE_CODE_NTFY_WRAPPED=1 is in the wrapper's environment
    stdinTTY,          \* stdin is a terminal: setRawMode succeeds
    mainPc,            \* position of the main goroutine inside Run
    startFailed,       \* Manager.Start returned an error
    child,             \* the child process: none, running, dead, reaped
    childStatus,       \* how the child ended: exit code or signal number
    ptyOpen,           \* the PTY master is allocated and not closed
    exitCode,          \* Manager.exitCode
    exit,              \* the wrapper process: ended, status, which path ended it
    termRaw,           \* the controlling terminal is in raw mode
    restoreFunc,       \* PTYManager.restoreFunc is not nil
    restoreCalls,      \* history: calls of the restore function
    rawEntries,        \* history: successful calls of setRawMode
    ioPc,              \* position of the CopyIO goroutine
    sigPc,             \* position of main's shutdown-signal goroutine
    shutdownSig,       \* the signal main's shutdown-signal goroutine received
    termSent,          \* Manager.Stop has sent SIGTERM to the running child
    fwdPc,             \* Manager.forwardSignals goroutine: none, running, done
    fwdChan,           \* Manager.sigChan (capacity 1): the signal it holds
    forwarded,         \* history: signals forwardSignals passed to the child
    inPump,            \* the input pump of CopyIO: none, running, done
    eofAt,             \* history: bytes read from the master when stdin ended
    outPump,           \* the output pump of CopyIO: none, running, done
    ptyPending,        \* bytes the child wrote that the master has not read
    writes,            \* number of writes the child has made
    rbuf,              \* outputReader.buffer
    ptyOut,            \* history: every byte read from the PTY master, in order
    termOut,           \* history: every byte written to stdout, in order
    handled,           \* history: every byte handed to the output handler
    bnMu,              \* bn.mu: free, or the goroutine whose sink call holds it
    omMu,              \* om.mu: free, or pump
    pending,           \* Batcher.pending
    bTimer,            \* Batcher.timer: nil, scheduled, expired or stopped
    bOrphans,          \* scheduled timers that Batcher.timer no longer points to
    bInflight,         \* started timer callbacks waiting for b.mu in flush
    bFlushers,         \* Flush calls between their Unlock and their flush()
    bFlushes,          \* history: number of Flush calls so far
    added,             \* history: number of Add calls so far
    delivered,         \* history: the batches handed to the callback, in order
    capacity,          \* TokenBucketRateLimiter.capacity
    tokens,            \* TokenBucketRateLimiter.tokens
    refillRate,        \* TokenBucketRateLimiter.refillRate
    lastRefill,        \* TokenBucketRateLimiter.lastRefill
    calls,             \* history: Allow calls since the limiter was created
    allowed,           \* history: Allow calls that returned true
    resets,            \* history: Reset calls
    screenClearCount,  \* the test handler's count of HandleScreenClear calls
    dsCalls,           \* history: number of DetectSequences calls
    dsPrev,            \* history: the data of the call before the last one
    dsData,            \* history: the data of the last call
    dsFired,           \* history: HandleScreenClear calls made by the last call
    dsStream,          \* history: all data passed to DetectSequences, in order
    rdCalls,           \* history: number of direct Read calls
    rdLenP,            \* history: len(p) of the last Read call
    rdN,               \* history: the count the last Read call returned
    rdStored,          \* history: the bytes the last Read call stored in p
    sent,              \* what the underlying notifier (sink) was handed
    session,           \* history: number of ResetSession calls so far
    epoch,             \* history: number of (re)arming calls so far
    cause,             \* history: why backstopSent is set
    postponed,         \* history: last arming was output before the deadline
    bellSession,       \* history: session in which a bell last disarmed, or -1
    resetFrom          \* history: engine state the last ResetSession found

cliVars == <<osArgs, envTopic, envQuiet, envConfig, defFile, defaultArgs, cliPc,
             ourArgs, claudeArgs, flags, cfg, args, usage, cliExit>>
cfgVars == <<timeout, quiet, startupNotify, wrapped, cliVars>>
histVars == <<session, epoch, cause, postponed, bellSession, resetFrom>>
bnVars == <<backstopSent, timer, lastActivityTime, histVars>>
tmVars == <<live, fresh>>
omVars == <<buffer, lineBuffer, hdPc, cur, todo, observe>>
rdVars == <<ptyPending, writes, rbuf, ptyOut, termOut, handled>>
envVars == <<marker, stdinTTY>>
procVars == <<mainPc, startFailed, child, childStatus, ptyOpen, exitCode, exit>>
termVars == <<termRaw, restoreFunc, restoreCalls, rawEntries>>
ioVars == <<ioPc, sigPc, inPump, eofAt, outPump>>
sigVars == <<shutdownSig, termSent, fwdPc, fwdChan, forwarded>>
lkVars == <<bnMu, omMu>>
btVars == <<pending, bTimer, bOrphans, bInflight, bFlushers, bFlushes, added, delivered>>
tbVars == <<capacity, tokens, refillRate, lastRefill, calls, allowed, resets>>
dsVars == <<screenClearCount, dsCalls, dsPrev, dsData, dsFired, dsStream>>
rpVars == <<rdCalls, rdLenP, rdN, rdStored>>
auxVars == <<lkVars, btVars, tbVars, dsVars, rpVars>>
ptVars == <<envVars, sigVars, procVars, termVars, ioVars, rdVars, auxVars>>
vars == <<now, cfgVars, phase, bnVars, tmVars, inflight, omVars, sent, ptyIn, ptVars>>

\* ------------------------------------------------------------------ timers
Nil == [deadline |-> 0, active |-> FALSE, set |-> FALSE]

\* time.AfterFunc(d, bn.sendBackstopNotification)
AfterFunc(d) == [deadline |-> now + d, active |-> TRUE, set |-> TRUE]

\* timer.Stop(): an unexpired timer will not expire any more
TimerStop(t) == [t EXCEPT !.active = FALSE]

\* "if bn.timer != nil { bn.timer.Stop() }": the number of scheduled timers
\* the call removes
Stopped(t) == IF t.set /\ t.active THEN 1 ELSE 0

\* slip: the old timer is not stopped before a new one is scheduled
Restart_NoStop ==
    /\ live' = live + (IF timeout > 0 THEN 1 ELSE 0)
    /\ fresh' = 0

\* the timer is stopped if there is one and, with a deadline, a new one is
\* scheduled with AfterFunc; callbacks already started belong to the old one
Restart ==
    /\ live' = (live - Stopped(timer)) + (IF timeout > 0 THEN 1 ELSE 0)
    /\ fresh' = 0

\* the engine states of the specification, read off the notifier's fields
Armed == ~backstopSent /\ timer.active
Fired == backstopSent /\ cause = "fired"
Disabled == (backstopSent /\ cause = "bell") \/ (~backstopSent /\ ~timer.active)
EngineState == IF Armed THEN "Armed" ELSE IF Fired THEN "Fired" ELSE "Disabled"

\* -------------------------------------------------------------------- sink
\* a notification as the sink receives it; besides kind and time the entry
\* records the notifier's history at the moment of the call
Notification(kind, ok, ep, since) ==
    [kind |-> kind, at |-> now, ok |-> ok,
     session |-> session, epoch |-> ep, since |-> since,
     postponed |-> postponed, afterBell |-> (bellSession = session)]

\* underlying.Send(notification): the sink is handed the notification and
\* answers with success or an error
UnderlyingSend(n) == sent' = Append(sent, n)

Backstops == { i \in 1..Len(sent) : sent[i].kind = "backstop" }
Startups == { i \in 1..Len(sent) : sent[i].kind = "startup" }

\* entries i < j of the sink's log with no forwarded Send between them
NoSendBetween(i, j) == i < j /\ \A k \in Startups : k < i \/ k > j

\* --------------------------------------------------------- BackstopNotifier
NewBackstopNotifier(t) ==
    [backstopSent |-> FALSE,
     lastActivityTime |-> 0,
     timer |-> IF t > 0
               THEN [deadline |-> t, active |-> TRUE, set |-> TRUE]
               ELSE Nil]

\* slip: the notification goes straight to the sink and the timer is left alone
Send_Bypass(kind, ok) ==
    /\ UnderlyingSend(Notification(kind, ok, epoch, lastActivityTime))
    /\ UNCHANGED <<bnVars, tmVars>>

Send(kind, ok) ==
    /\ lastActivityTime' = now
    /\ backstopSent' = FALSE
    /\ timer' = IF timeout > 0 THEN AfterFunc(timeout)
                ELSE IF timer.set THEN TimerStop(timer) ELSE timer
    /\ epoch' = epoch + 1
    /\ cause' = "none"
    /\ postponed' = FALSE
    /\ UnderlyingSend(Notification(kind, ok, epoch + 1, now))
    /\ Restart
    /\ UNCHANGED <<session, bellSession, resetFrom>>

\* slip: the timer is restarted without looking at the timeout
MarkActivity_NoGuard ==
    /\ lastActivityTime' = now
    /\ backstopSent' = FALSE
    /\ timer' = AfterFunc(timeout)
    /\ epoch' = epoch + 1
    /\ cause' = "none"
    /\ postponed' = (Armed /\ now < timer.deadline)
    /\ Restart
    /\ UNCHANGED <<session, bellSession, resetFrom>>

\* slip: activity after the backstop was sent is ignored
MarkActivity_IgnoreWhenSent ==
    IF backstopSent
    THEN UNCHANGED <<bnVars, tmVars>>
    ELSE /\ lastActivityTime' = now
         /\ timer' = IF timeout > 0 THEN AfterFunc(timeout)
                     ELSE IF timer.set THEN TimerStop(timer) ELSE timer
         /\ epoch' = epoch + 1
         /\ postponed' = (Armed /\ now < timer.deadline)
         /\ Restart
         /\ UNCHANGED <<backstopSent, cause, session, bellSession, resetFrom>>

MarkActivity ==
    /\ lastActivityTime' = now
    /\ backstopSent' = FALSE
    /\ timer' = IF timeout > 0 THEN AfterFunc(timeout)
                ELSE IF timer.set THEN TimerStop(timer) ELSE timer
    /\ epoch' = epoch + 1
    /\ cause' = "none"
    /\ postponed' = (Armed /\ now < timer.deadline)
    /\ Restart
    /\ UNCHANGED <<session, bellSession, resetFrom>>

\* slip: the callback does not look at backstopSent
sendBackstopNotification_NoCheck(ok) ==
    /\ backstopSent' = TRUE
    /\ cause' = "fired"
    /\ UnderlyingSend(Notification("backstop", ok, epoch, lastActivityTime))
    /\ UNCHANGED <<timer, lastActivityTime, session, epoch, postponed,
                   bellSession, resetFrom>>

\* slip: the callback looks at whether a timer exists, not at backstopSent
sendBackstopNotification_TimerCheck(ok) ==
    IF ~timer.set
    THEN UNCHANGED <<bnVars, sent>>
    ELSE /\ backstopSent' = TRUE
         /\ cause' = "fired"
         /\ UnderlyingSend(Notification("backstop", ok, epoch, lastActivityTime))
         /\ UNCHANGED <<timer, lastActivityTime, session, epoch, postponed,
                        bellSession, resetFrom>>

\* slip: backstopSent is only set when the sink accepted the notification
sendBackstopNotification_Retry(ok) ==
    IF backstopSent
    THEN UNCHANGED <<bnVars, sent>>
    ELSE /\ backstopSent' = ok
         /\ cause' = IF ok THEN "fired" ELSE "none"
         /\ UnderlyingSend(Notification("backstop", ok, epoch, lastActivityTime))
         /\ UNCHANGED <<timer, lastActivityTime, session, epoch, postponed,
                        bellSession, resetFrom>>

sendBackstopNotification(ok) ==
    IF backstopSent
    THEN UNCHANGED <<bnVars, sent>>
    ELSE /\ backstopSent' = TRUE
         /\ cause' = "fired"
         /\ UnderlyingSend(Notification("backstop", ok, epoch, lastActivityTime))
         /\ UNCHANGED <<timer, lastActivityTime, session, epoch, postponed,
                        bellSession, resetFrom>>

SetBackstopSent(flag) ==
    /\ backstopSent' = flag
    /\ cause' = IF flag THEN "bell" ELSE "none"
    /\ timer' = IF flag /\ timer.set THEN TimerStop(timer) ELSE timer
    /\ bellSession' = IF flag /\ Armed THEN session ELSE bellSession
    /\ live' = IF flag THEN live - Stopped(timer) ELSE live
    /\ fresh' = IF flag /\ timer.set THEN 0 ELSE fresh
    /\ UNCHANGED <<lastActivityTime, session, epoch, postponed, resetFrom>>

\* slip: the new session keeps the old backstopSent flag
ResetSession_KeepFlag ==
    /\ backstopSent' = backstopSent
    /\ lastActivityTime' = now
    /\ timer' = IF timeout > 0 THEN AfterFunc(timeout)
                ELSE IF timer.set THEN TimerStop(timer) ELSE timer
    /\ session' = session + 1
    /\ epoch' = epoch + 1
    /\ cause' = cause
    /\ postponed' = FALSE
    /\ resetFrom' = EngineState
    /\ Restart
    /\ UNCHANGED bellSession

ResetSession ==
    /\ backstopSent' = FALSE
    /\ lastActivityTime' = now
    /\ timer' = IF timeout > 0 THEN AfterFunc(timeout)
                ELSE IF timer.set THEN TimerStop(timer) ELSE timer
    /\ session' = session + 1
    /\ epoch' = epoch + 1
    /\ cause' = "none"
    /\ postponed' = FALSE
    /\ resetFrom' = EngineState
    /\ Restart
    /\ UNCHANGED bellSession

\* Close: bn.timer.Stop() when a timer was ever created, nothing else
Close ==
    /\ timer' = IF timer.set THEN TimerStop(timer) ELSE timer
    /\ live' = live - Stopped(timer)
    /\ fresh' = IF timer.set THEN 0 ELSE fresh
    /\ UNCHANGED <<backstopSent, lastActivityTime, histVars>>

\* ------------------------------------------------ TerminalSequenceDetector
Contains(s, sub) ==
    \E i \in 0..(Len(s) - Len(sub)) : SubSeq(s, i + 1, i + Len(sub)) = sub

foundClear(b) == \E seq \in screenClearSequences : Contains(b, seq)

Truncate(b) ==
    IF Len(b) > KeepLen THEN SubSeq(b, Len(b) - KeepLen + 1, Len(b)) ELSE b

\* ------------------------------------------------------------ OutputMonitor
HasNL(b) == \E i \in 1..Len(b) : b[i] = NL
FirstNL(b) == CHOOSE i \in 1..Len(b) : b[i] = NL /\ \A j \in 1..(i - 1) : b[j] # NL

RECURSIVE CompleteLines(_)
CompleteLines(b) ==
    IF ~HasNL(b) THEN <<>>
    ELSE <<SubSeq(b, 1, FirstNL(b) - 1)>>
             \o CompleteLines(SubSeq(b, FirstNL(b) + 1, Len(b)))

RECURSIVE IncompleteLine(_)
IncompleteLine(b) ==
    IF ~HasNL(b) THEN b
    ELSE IncompleteLine(SubSeq(b, FirstNL(b) + 1, Len(b)))

\* HandleData, first part: DetectSequences(data, om) and, on a screen clear,
\* HandleScreenClear -> ResetSession
HandleDataDetect(data) ==
    /\ phase = "running"
    /\ hdPc = "idle"
    /\ Len(buffer) + Len(data) <= MaxStream
    /\ cur' = data
    /\ buffer' = Truncate(buffer \o data)
    /\ hdPc' = "mark"
    /\ observe' = [bell |-> Contains(data, <<BEL>>), delivered |-> FALSE]
    /\ IF foundClear(buffer \o data) /\ wrapped
       THEN ResetSession
       ELSE UNCHANGED <<bnVars, tmVars>>
    /\ UNCHANGED <<now, cfgVars, ptVars, ptyIn, phase, inflight, lineBuffer, todo, sent>>

\* HandleData, second part: under om.mu, MarkActivity, then split the line
\* buffer into complete lines and the incomplete rest
HandleDataMark ==
    /\ hdPc = "mark"
    /\ IF wrapped THEN MarkActivity ELSE UNCHANGED <<bnVars, tmVars>>
    /\ todo' = CompleteLines(lineBuffer \o cur)
    /\ lineBuffer' = IncompleteLine(lineBuffer \o cur)
    /\ hdPc' = IF CompleteLines(lineBuffer \o cur) = <<>> THEN "idle" ELSE "lines"
    /\ cur' = <<>>
    /\ UNCHANGED <<now, cfgVars, ptVars, ptyIn, phase, inflight, buffer, observe, sent>>

\* processLine(line): a bell in the line disables the backstop timer
processLine(line) ==
    IF Contains(line, <<BEL>>) /\ wrapped
    THEN SetBackstopSent(TRUE)
    ELSE UNCHANGED <<bnVars, tmVars>>

\* HandleData, third part: the loop over the complete lines
HandleDataLine ==
    /\ hdPc = "lines"
    /\ processLine(Head(todo))
    /\ todo' = Tail(todo)
    /\ hdPc' = IF Tail(todo) = <<>> THEN "idle" ELSE "lines"
    /\ observe' = [observe EXCEPT
                      !.delivered = @ \/ (wrapped /\ Contains(Head(todo), <<BEL>>))]
    /\ UNCHANGED <<now, cfgVars, ptVars, ptyIn, phase, inflight, buffer, lineBuffer, cur, sent>>

\* ---------------------------------------------------------------- input pump
\* slip: the input pump reports each keystroke to the notifier, which stops
\* the backstop timer
InputCopy_CallsHandler ==
    /\ phase = "running"
    /\ ptyIn < MaxInput
    /\ ptyIn' = ptyIn + 1
    /\ IF wrapped THEN SetBackstopSent(TRUE) ELSE UNCHANGED <<bnVars, tmVars>>
    /\ UNCHANGED <<now, cfgVars, ptVars, phase, inflight, omVars, sent>>

\* CopyIO, stdin to PTY: io.Copy(p.pty, stdin) hands the user's keystrokes to
\* the PTY master and calls nothing else
InputCopy ==
    /\ phase = "running"
    /\ ptyIn < MaxInput
    /\ ptyIn' = ptyIn + 1
    /\ UNCHANGED <<now, cfgVars, ptVars, phase, bnVars, tmVars, inflight, omVars, sent>>

\* ------------------------------------------------------------------ runtime
Tick ==
    /\ phase # "exited"
    /\ now < MaxTime
    /\ now' = now + 1
    /\ UNCHANGED <<cfgVars, ptVars, ptyIn, phase, bnVars, tmVars, inflight, omVars, sent>>

\* the runtime expires the timer and starts bn.sendBackstopNotification in
\* its own goroutine, where it waits for bn.mu
TimerExpire ==
    /\ phase # "exited"
    /\ timer.active
    /\ now >= timer.deadline
    /\ timer' = [timer EXCEPT !.active = FALSE]
    /\ inflight' = inflight + 1
    /\ live' = live - 1
    /\ fresh' = fresh + 1
    /\ UNCHANGED <<now, cfgVars, ptVars, ptyIn, phase, backstopSent, lastActivityTime,
                   histVars, omVars, sent>>

\* a started callback obtains bn.mu and runs: one of the timer bn.timer
\* points to, or one of a timer that was stopped or replaced after it expired
TimerCallback ==
    /\ phase # "exited"
    /\ inflight > 0
    /\ inflight' = inflight - 1
    /\ \/ fresh > 0 /\ fresh' = fresh - 1
       \/ inflight > fresh /\ fresh' = fresh
    /\ live' = live
    /\ \E ok \in BOOLEAN : sendBackstopNotification(ok)
    /\ UNCHANGED <<now, cfgVars, ptVars, ptyIn, phase, omVars>>

\* -------------------------------------------------------------- application
\* slip: the startup notification is sent without looking at cfg.Quiet
RunStartup_IgnoreQuiet ==
    /\ phase = "created"
    /\ phase' = "started"
    /\ IF startupNotify
       THEN \E ok \in BOOLEAN :
                IF wrapped
                THEN Send("startup", ok)
                ELSE /\ UnderlyingSend(Notification("startup", ok, epoch,
                                                     lastActivityTime))
                     /\ UNCHANGED <<bnVars, tmVars>>
       ELSE UNCHANGED <<bnVars, tmVars, sent>>
    /\ UNCHANGED <<now, cfgVars, ptVars, ptyIn, inflight, omVars>>

\* Application.Run, first part: the startup notification
RunStartup ==
    /\ phase = "created"
    /\ phase' = "started"
    /\ IF startupNotify /\ ~quiet
       THEN \E ok \in BOOLEAN :
                IF wrapped
                THEN Send("startup", ok)
                ELSE /\ UnderlyingSend(Notification("startup", ok, epoch,
                                                     lastActivityTime))
                     /\ UNCHANGED <<bnVars, tmVars>>
       ELSE UNCHANGED <<bnVars, tmVars, sent>>
    /\ UNCHANGED <<now, cfgVars, ptVars, ptyIn, inflight, omVars>>

\* Application.Run, second part: ProcessManager.Start succeeds or fails
RunStart ==
    /\ phase = "started"
    /\ \E startErr \in BOOLEAN : phase' = IF startErr THEN "exited" ELSE "running"
    /\ UNCHANGED <<now, cfgVars, ptVars, ptyIn, bnVars, tmVars, inflight, omVars, sent>>

\* the child exits, Wait returns and main calls os.Exit
Exit ==
    /\ phase = "running"
    /\ hdPc = "idle"
    /\ phase' = "exited"
    /\ UNCHANGED <<now, cfgVars, ptVars, ptyIn, bnVars, tmVars, inflight, omVars, sent>>

\* a panic unwinds main: the deferred deps.Close() closes the notifier while
\* the other goroutines still run
DepsClose ==
    /\ phase = "running"
    /\ phase' = "closed"
    /\ IF wrapped THEN Close ELSE UNCHANGED <<bnVars, tmVars>>
    /\ UNCHANGED <<now, cfgVars, ptVars, ptyIn, inflight, omVars, sent>>

\* the runtime ends the process once the deferred calls have returned
Crash ==
    /\ phase = "closed"
    /\ phase' = "exited"
    /\ UNCHANGED <<now, cfgVars, ptVars, ptyIn, bnVars, tmVars, inflight, omVars, sent>>

\* ------------------------------------------------------------- outputReader
FocusOn == <<ESC, 91, 63, 49, 48, 48, 52, 104>>
FocusOff == <<ESC, 91, 63, 49, 48, 48, 52, 108>>

\* bytes.ReplaceAll(s, old, []byte{}): the occurrences of old are removed,
\* leftmost first and without overlap
RECURSIVE ReplaceAll(_, _)
ReplaceAll(b, old) ==
    IF Len(b) < Len(old) THEN b
    ELSE IF SubSeq(b, 1, Len(old)) = old
         THEN ReplaceAll(SubSeq(b, Len(old) + 1, Len(b)), old)
         ELSE <<Head(b)>> \o ReplaceAll(Tail(b), old)

filterFocusSequences(data) == ReplaceAll(ReplaceAll(data, FocusOn), FocusOff)

Min(a, b) == IF a < b THEN a ELSE b

\* outputReader.Read(p) with len(p) = lenP when the underlying Read returned
\* data (n > 0): the bytes copy(p, filtered) stores in p, the count returned
\* (len(filtered)) and the new r.buffer
ReadP(buf, data, lenP) ==
    LET b == buf \o data
        filtered == filterFocusSequences(b)
    IN  [out |-> SubSeq(filtered, 1, Min(Len(filtered), lenP)),
         n |-> Len(filtered),
         buffer |-> IF Len(filtered) < Len(b) THEN <<>>
                    ELSE IF Len(b) > BufCap
                         THEN SubSeq(b, Len(b) - BufKeep + 1, Len(b))
                         ELSE b]

\* the same with io.Copy's buffer
Read(buf, data) == ReadP(buf, data, ReadBufLen)

\* what the underlying reader may return in one call
ReadData == { <<97>>, <<97, 98>>, FocusOn }

\* a caller other than io.Copy calls Read(p) with a buffer of its own size;
\* the underlying reader returns at most len(p) bytes
ReadCall ==
    /\ rdCalls < MaxReads
    /\ rdCalls' = rdCalls + 1
    /\ \E lenP \in 1..MaxLenP, data \in ReadData :
          /\ Len(data) <= lenP
          /\ rdLenP' = lenP
          /\ rdN' = ReadP(rbuf, data, lenP).n
          /\ rdStored' = ReadP(rbuf, data, lenP).out
          /\ rbuf' = ReadP(rbuf, data, lenP).buffer
          /\ handled' = handled \o data
    /\ UNCHANGED <<now, cfgVars, phase, bnVars, tmVars, inflight, omVars, sent, ptyIn,
                   envVars, sigVars, procVars, termVars, ioVars, ptyPending, writes,
                   ptyOut, termOut, lkVars, btVars, tbVars, dsVars>>

\* the child writes a chunk to its terminal (the PTY slave)
ChildWrite(chunk) ==
    /\ ~exit.done
    /\ child = "running"
    /\ writes < MaxWrites
    /\ writes' = writes + 1
    /\ ptyPending' = ptyPending \o chunk
    /\ UNCHANGED <<now, cfgVars, phase, bnVars, tmVars, inflight, omVars, sent, ptyIn, auxVars,
                   envVars, sigVars, procVars, termVars, ioVars,
                   rbuf, ptyOut, termOut, handled>>

\* CopyIO, PTY to stdout: one round of io.Copy(stdout, reader). The master
\* returns some of the bytes that are waiting, Read filters them and calls
\* the handler with the bytes as read, io.Copy writes what Read returned.
OutputCopy ==
    /\ ~exit.done
    /\ outPump = "running"
    /\ ptyOpen
    /\ ptyPending # <<>>
    /\ \E k \in 1..Len(ptyPending) :
          LET data == SubSeq(ptyPending, 1, k)
              r == Read(rbuf, data)
          IN  /\ ptyPending' = SubSeq(ptyPending, k + 1, Len(ptyPending))
              /\ ptyOut' = ptyOut \o data
              /\ rbuf' = r.buffer
              /\ termOut' = termOut \o r.out
              /\ handled' = handled \o data
    /\ UNCHANGED <<now, cfgVars, phase, bnVars, tmVars, inflight, omVars, sent, ptyIn, auxVars,
                   envVars, sigVars, procVars, termVars, ioVars, writes>>

\* ------------------------------------------------------------ terminal mode
\* setRawMode(fd) on a terminal: the termios is saved, the terminal is put in
\* raw mode and the function that restores the saved termios is returned
setRawMode ==
    /\ termRaw' = TRUE
    /\ rawEntries' = rawEntries + 1

\* the function returned by setRawMode: the saved termios is written back
restore ==
    /\ termRaw' = FALSE
    /\ restoreCalls' = restoreCalls + 1

\* slip: the restore function is called but not forgotten
Stop_KeepFunc ==
    IF restoreFunc
    THEN restore /\ UNCHANGED <<restoreFunc, rawEntries>>
    ELSE UNCHANGED termVars

\* PTYManager.Stop, under p.mu
Stop ==
    IF restoreFunc
    THEN restore /\ restoreFunc' = FALSE /\ UNCHANGED rawEntries
    ELSE UNCHANGED termVars

\* Manager.Stop: PTYManager.Stop, then SIGTERM to the child if there is one.
\* What the child does with the signal is the child's choice (ChildExit).
ManagerStop ==
    /\ Stop
    /\ termSent' = (termSent \/ child = "running")

\* ------------------------------------------------------------------ signals
\* main: signal.Notify(sigChan, os.Interrupt, syscall.SIGTERM)
MainSignals == {"INT", "TERM"}

\* setupSignalForwarding: signal.Notify(m.sigChan, ...)
ForwardSignals == {"TERM", "INT", "HUP", "QUIT", "USR1", "USR2", "WINCH"}

\* the signals the environment sends to the wrapper process
Arriving == {"INT", "TERM"}

\* the signals the wrapper has a handler for
Notified == MainSignals \cup (IF fwdPc = "running" THEN ForwardSignals ELSE {})

\* the runtime hands an arriving signal to m.sigChan without blocking: it is
\* dropped when the channel is not registered for it or is full
NotifyForward(s) ==
    IF fwdPc = "running" /\ s \in ForwardSignals /\ fwdChan = "none"
    THEN s
    ELSE fwdChan

\* ----------------------------------------------------------- child process
ExitCodes == {0, 1, 2, 42, 255}
Signals == {9, 15}

\* the child ends on its own or is killed by a signal
ChildExit ==
    /\ ~exit.done
    /\ child = "running"
    /\ child' = "dead"
    /\ \/ \E c \in ExitCodes : childStatus' = [kind |-> "exit", n |-> c]
       \/ \E sig \in Signals : childStatus' = [kind |-> "signal", n |-> sig]
    /\ UNCHANGED <<now, cfgVars, phase, bnVars, tmVars, inflight, omVars, sent, ptyIn, auxVars,
                   envVars, sigVars, mainPc, startFailed, ptyOpen, exitCode, exit,
                   termVars, ioVars, rdVars>>

\* os.ProcessState.ExitCode(): the exit code of a process that exited, -1
\* for one that was terminated by a signal
ProcessStateExitCode(st) == IF st.kind = "exit" THEN st.n ELSE -1

\* os.Exit(code): the process ends at once, deferred functions do not run;
\* the parent sees the low eight bits of the code
osExit(code, via) ==
    exit' = [done |-> TRUE, status |-> code % 256, via |-> via]

\* ---------------------------------------------------------- main goroutine
\* slip: Start does not look at the self-wrap marker
MainStart_NoMarkerCheck ==
    /\ ~exit.done
    /\ mainPc = "start"
    /\ \E ptyErr \in BOOLEAN :
          IF ptyErr
          THEN /\ startFailed' = TRUE
               /\ mainPc' = "exit"
               /\ UNCHANGED <<child, ptyOpen, ioPc, fwdPc>>
          ELSE /\ child' = "running"
               /\ ptyOpen' = TRUE
               /\ ioPc' = "start"
               /\ mainPc' = "wait"
               /\ fwdPc' = "running"
               /\ UNCHANGED startFailed
    /\ UNCHANGED <<now, cfgVars, phase, bnVars, tmVars, inflight, omVars, sent, ptyIn, auxVars,
                   envVars, shutdownSig, termSent, fwdChan, forwarded,
                   childStatus, exitCode, exit, termVars,
                   sigPc, inPump, eofAt, outPump, rdVars>>

\* Manager.Start: refuse when already wrapped; else PTYManager.Start (pty.Start
\* allocates the PTY and spawns the child, or fails) and go CopyIO(...).
\* After an error Run returns it and main goes on to os.Exit.
MainStart ==
    /\ ~exit.done
    /\ mainPc = "start"
    /\ IF marker
       THEN /\ startFailed' = TRUE
            /\ mainPc' = "exit"
            /\ UNCHANGED <<child, ptyOpen, ioPc, fwdPc>>
       ELSE \E ptyErr \in BOOLEAN :
              IF ptyErr
              THEN /\ startFailed' = TRUE
                   /\ mainPc' = "exit"
                   /\ UNCHANGED <<child, ptyOpen, ioPc, fwdPc>>
              ELSE /\ child' = "running"
                   /\ ptyOpen' = TRUE
                   /\ ioPc' = "start"
                   /\ mainPc' = "wait"
                   /\ fwdPc' = "running"
                   /\ UNCHANGED startFailed
    /\ UNCHANGED <<now, cfgVars, phase, bnVars, tmVars, inflight, omVars, sent, ptyIn, auxVars,
                   envVars, shutdownSig, termSent, fwdChan, forwarded,
                   childStatus, exitCode, exit, termVars,
                   sigPc, inPump, eofAt, outPump, rdVars>>

\* slip: Wait does not store the child's exit code
MainReap_NoExitCode ==
    /\ ~exit.done
    /\ mainPc = "wait"
    /\ child = "dead"
    /\ child' = "reaped"
    /\ ptyOpen' = FALSE
    /\ mainPc' = "stop"
    /\ UNCHANGED <<now, cfgVars, phase, bnVars, tmVars, inflight, omVars, sent, ptyIn, auxVars,
                   envVars, sigVars, startFailed, childStatus, exitCode, exit, termVars,
                   ioVars, rdVars>>

\* slip: Wait also waits for the stdin copy before it reaps and closes
MainReap_WaitsForInput ==
    /\ ~exit.done
    /\ mainPc = "wait"
    /\ child = "dead"
    /\ inPump # "running"
    /\ child' = "reaped"
    /\ ptyOpen' = FALSE
    /\ exitCode' = ProcessStateExitCode(childStatus)
    /\ mainPc' = "stop"
    /\ UNCHANGED <<now, cfgVars, phase, bnVars, tmVars, inflight, omVars, sent, ptyIn, auxVars,
                   envVars, sigVars, startFailed, childStatus, exit, termVars,
                   ioVars, rdVars>>

\* Manager.Wait, first part: PTYManager.Wait (cmd.Wait reaps the child, the
\* PTY master is closed), then m.exitCode = ProcessState().ExitCode()
MainReap ==
    /\ ~exit.done
    /\ mainPc = "wait"
    /\ child = "dead"
    /\ child' = "reaped"
    /\ ptyOpen' = FALSE
    /\ exitCode' = ProcessStateExitCode(childStatus)
    /\ mainPc' = "stop"
    /\ UNCHANGED <<now, cfgVars, phase, bnVars, tmVars, inflight, omVars, sent, ptyIn, auxVars,
                   envVars, sigVars, startFailed, childStatus, exit, termVars,
                   ioVars, rdVars>>

\* Manager.Wait, second part: "Ensure terminal is restored", then
\* close(m.done) ends forwardSignals and cleanupSignals unregisters m.sigChan
MainWaitStop ==
    /\ ~exit.done
    /\ mainPc = "stop"
    /\ Stop
    /\ mainPc' = "exit"
    /\ fwdPc' = "done"
    /\ UNCHANGED <<now, cfgVars, phase, bnVars, tmVars, inflight, omVars, sent, ptyIn, auxVars,
                   envVars, shutdownSig, termSent, fwdChan, forwarded, startFailed, child, childStatus, ptyOpen, exitCode,
                   exit, ioVars, rdVars>>

\* main, after Run: os.Exit(app.ExitCode())
MainExit ==
    /\ ~exit.done
    /\ mainPc = "exit"
    /\ osExit(exitCode, "main")
    /\ UNCHANGED <<now, cfgVars, phase, bnVars, tmVars, inflight, omVars, sent, ptyIn, auxVars,
                   envVars, sigVars, mainPc, startFailed, child, childStatus, ptyOpen,
                   exitCode, termVars, ioVars, rdVars>>

\* the main goroutine panics while Run waits for the child
MainPanic ==
    /\ ~exit.done
    /\ mainPc \in {"wait", "stop"}
    /\ mainPc' = "panic"
    /\ UNCHANGED <<now, cfgVars, phase, bnVars, tmVars, inflight, omVars, sent, ptyIn, auxVars,
                   envVars, sigVars, startFailed, child, childStatus, ptyOpen, exitCode,
                   exit, termVars, ioVars, rdVars>>

\* main's deferred recover: app.Stop(), then the panic is raised again and
\* the runtime ends the process
MainRecover ==
    /\ ~exit.done
    /\ mainPc = "panic"
    /\ ManagerStop
    /\ osExit(PanicStatus, "panic")
    /\ UNCHANGED <<now, cfgVars, phase, bnVars, tmVars, inflight, omVars, sent, ptyIn, auxVars,
                   envVars, shutdownSig, fwdPc, fwdChan, forwarded, mainPc, startFailed, child, childStatus, ptyOpen,
                   exitCode, ioVars, rdVars>>

\* --------------------------------------------------------- signal goroutine
\* SIGINT or SIGTERM arrives at the wrapper: main's goroutine takes it from
\* sigChan, and m.sigChan gets it too when forwarding is set up
SigReceive ==
    /\ ~exit.done
    /\ sigPc = "idle"
    /\ \E s \in Arriving \cap MainSignals :
          /\ shutdownSig' = s
          /\ fwdChan' = NotifyForward(s)
    /\ sigPc' = "stop"
    /\ UNCHANGED <<now, cfgVars, phase, bnVars, tmVars, inflight, omVars, sent, ptyIn, auxVars,
                   envVars, termSent, fwdPc, forwarded, procVars, termVars,
                   ioPc, inPump, eofAt, outPump, rdVars>>

\* a signal arrives that main's goroutine does not take (it has left its
\* receive, or the signal is not one of main's): only m.sigChan gets it
SigDeliver ==
    /\ ~exit.done
    /\ \E s \in Arriving :
          /\ s \notin MainSignals \/ sigPc # "idle"
          /\ NotifyForward(s) # fwdChan
          /\ fwdChan' = NotifyForward(s)
    /\ UNCHANGED <<now, cfgVars, phase, bnVars, tmVars, inflight, omVars, sent, ptyIn, auxVars,
                   envVars, shutdownSig, termSent, fwdPc, forwarded, procVars,
                   termVars, ioVars, rdVars>>

\* slip: SIGINT is not passed on when stdin is a terminal
forwardSignals_TTYAware ==
    /\ ~exit.done
    /\ fwdPc = "running"
    /\ fwdChan # "none"
    /\ fwdChan' = "none"
    /\ forwarded' = IF child = "running" /\ ~(stdinTTY /\ fwdChan = "INT")
                    THEN forwarded \cup {fwdChan}
                    ELSE forwarded
    /\ UNCHANGED <<now, cfgVars, phase, bnVars, tmVars, inflight, omVars, sent, ptyIn, auxVars,
                   envVars, shutdownSig, termSent, fwdPc, procVars, termVars,
                   ioVars, rdVars>>

\* forwardSignals: a signal taken from m.sigChan is sent to the child with
\* Process().Signal(sig); a child that has ended gets nothing
forwardSignals ==
    /\ ~exit.done
    /\ fwdPc = "running"
    /\ fwdChan # "none"
    /\ fwdChan' = "none"
    /\ forwarded' = IF child = "running"
                    THEN forwarded \cup {fwdChan}
                    ELSE forwarded
    /\ UNCHANGED <<now, cfgVars, phase, bnVars, tmVars, inflight, omVars, sent, ptyIn, auxVars,
                   envVars, shutdownSig, termSent, fwdPc, procVars, termVars,
                   ioVars, rdVars>>

\* app.Stop()
SigStop ==
    /\ ~exit.done
    /\ sigPc = "stop"
    /\ ManagerStop
    /\ sigPc' = "exit"
    /\ UNCHANGED <<now, cfgVars, phase, bnVars, tmVars, inflight, omVars, sent, ptyIn, auxVars,
                   envVars, shutdownSig, fwdPc, fwdChan, forwarded, procVars,
                   ioPc, inPump, eofAt, outPump, rdVars>>

\* slip: the signal goroutine ends the process with the child's exit code
SigExit_ChildCode ==
    /\ ~exit.done
    /\ sigPc = "exit"
    /\ osExit(exitCode, "signal")
    /\ UNCHANGED <<now, cfgVars, phase, bnVars, tmVars, inflight, omVars, sent, ptyIn, auxVars,
                   envVars, sigVars, mainPc, startFailed, child, childStatus,
                   ptyOpen, exitCode, termVars, ioVars, rdVars>>

\* os.Exit(130)
SigExit ==
    /\ ~exit.done
    /\ sigPc = "exit"
    /\ osExit(SigintStatus, "signal")
    /\ UNCHANGED <<now, cfgVars, phase, bnVars, tmVars, inflight, omVars, sent, ptyIn, auxVars,
                   envVars, sigVars, mainPc, startFailed, child, childStatus,
                   ptyOpen, exitCode, termVars, ioVars, rdVars>>

\* --------------------------------------------------------- CopyIO goroutine
\* CopyIO, first part: setRawMode on stdin. Without a terminal it fails,
\* nothing is stored and the pumps are started right away.
CopyIOSetRaw ==
    /\ ~exit.done
    /\ ioPc = "start"
    /\ IF stdinTTY
       THEN /\ setRawMode
            /\ ioPc' = "store"
            /\ UNCHANGED <<inPump, outPump>>
       ELSE /\ ioPc' = "pumps"
            /\ inPump' = "running"
            /\ outPump' = "running"
            /\ UNCHANGED <<termRaw, rawEntries>>
    /\ UNCHANGED <<now, cfgVars, phase, bnVars, tmVars, inflight, omVars, sent, ptyIn, auxVars,
                   envVars, sigVars, procVars, restoreFunc, restoreCalls, sigPc, eofAt,
                   rdVars>>

\* CopyIO, second part: p.restoreFunc = restore under p.mu, the release is
\* deferred and the two pumps are started
CopyIOStore ==
    /\ ~exit.done
    /\ ioPc = "store"
    /\ restoreFunc' = TRUE
    /\ ioPc' = "pumps"
    /\ inPump' = "running"
    /\ outPump' = "running"
    /\ UNCHANGED <<now, cfgVars, phase, bnVars, tmVars, inflight, omVars, sent, ptyIn, auxVars,
                   envVars, sigVars, procVars, termRaw, restoreCalls, rawEntries, sigPc,
                   eofAt, rdVars>>

\* slip: the end of the input pump ends the output pump too
StdinEOF_StopsOutput ==
    /\ ~exit.done
    /\ inPump = "running"
    /\ inPump' = "done"
    /\ outPump' = "done"
    /\ eofAt' = Len(ptyOut)
    /\ UNCHANGED <<now, cfgVars, phase, bnVars, tmVars, inflight, omVars, sent, ptyIn, auxVars,
                   envVars, sigVars, procVars, termVars, ioPc, sigPc, rdVars>>

\* the input pump: io.Copy(p.pty, stdin) returns at end-of-file on stdin
StdinEOF ==
    /\ ~exit.done
    /\ inPump = "running"
    /\ inPump' = "done"
    /\ eofAt' = Len(ptyOut)
    /\ UNCHANGED <<now, cfgVars, phase, bnVars, tmVars, inflight, omVars, sent, ptyIn, auxVars,
                   envVars, sigVars, procVars, termVars, ioPc, sigPc, outPump, rdVars>>

\* the master has nothing more to give: the child is gone and its output
\* has been read, or the master has been closed
MasterEOF == (child # "running" /\ ptyPending = <<>>) \/ ~ptyOpen

\* the output pump: io.Copy(stdout, reader) returns when the read fails
OutputEnd ==
    /\ ~exit.done
    /\ outPump = "running"
    /\ MasterEOF
    /\ outPump' = "done"
    /\ UNCHANGED <<now, cfgVars, phase, bnVars, tmVars, inflight, omVars, sent, ptyIn, auxVars,
                   envVars, sigVars, procVars, termVars, ioPc, sigPc, inPump, eofAt,
                   rdVars>>

\* CopyIO, last part: both pumps have returned (wg.Wait) and the deferred
\* release runs under p.mu
CopyIORelease ==
    /\ ~exit.done
    /\ ioPc = "pumps"
    /\ inPump = "done"
    /\ outPump = "done"
    /\ ioPc' = "done"
    /\ IF restoreFunc
       THEN restore /\ restoreFunc' = FALSE /\ UNCHANGED rawEntries
       ELSE UNCHANGED termVars
    /\ UNCHANGED <<now, cfgVars, phase, bnVars, tmVars, inflight, omVars, sent, ptyIn, auxVars,
                   envVars, sigVars, procVars, sigPc, inPump, eofAt, outPump, rdVars>>

\* ------------------------------------------------------- main: command line
\* arguments a user may give: the wrapper's flags in several spellings, a
\* flag of the inner program, a path and a word for the inner program
Tokens == {"--config", "--config=alt", "--quiet", "--help", "-quiet", "-p",
           "alt", "chat"}

\* strings.HasPrefix(arg, "-")
HasDashPrefix(arg) ==
    arg \in {"--config", "--config=alt", "--quiet", "--help",
             "-config", "-config=alt", "-quiet", "-help", "-p"}

\* strings.HasPrefix(arg, "--config=") || strings.HasPrefix(arg, "-config=")
HasConfigEqPrefix(arg) == arg \in {"--config=alt", "-config=alt"}

ArgLists == UNION { [1..n -> Tokens] : n \in 0..MaxArgs }

\* slip: the value after --config is not skipped and is seen again as an
\* argument of its own
RECURSIVE SplitArgs_NoSkip(_, _, _, _)
SplitArgs_NoSkip(a, i, our, claude) ==
    IF i > Len(a) THEN [ourArgs |-> our, claudeArgs |-> claude]
    ELSE IF a[i] \in {"--config", "-config"}
    THEN IF i + 1 <= Len(a) /\ ~HasDashPrefix(a[i + 1])
         THEN SplitArgs_NoSkip(a, i + 1, our \o <<a[i], a[i + 1]>>, claude)
         ELSE SplitArgs_NoSkip(a, i + 1, Append(our, a[i]), claude)
    ELSE IF a[i] \in {"--quiet", "-quiet", "--help", "-help"} \/ HasConfigEqPrefix(a[i])
    THEN SplitArgs_NoSkip(a, i + 1, Append(our, a[i]), claude)
    ELSE SplitArgs_NoSkip(a, i + 1, our, Append(claude, a[i]))

\* main's loop over os.Args from index i: the wrapper's flags go to ourArgs,
\* everything else to claudeArgs
RECURSIVE SplitArgs(_, _, _, _)
SplitArgs(a, i, our, claude) ==
    IF i > Len(a) THEN [ourArgs |-> our, claudeArgs |-> claude]
    ELSE IF a[i] \in {"--config", "-config"}
    THEN IF i + 1 <= Len(a) /\ ~HasDashPrefix(a[i + 1])
         THEN SplitArgs(a, i + 2, our \o <<a[i], a[i + 1]>>, claude)
         ELSE SplitArgs(a, i + 1, Append(our, a[i]), claude)
    ELSE IF a[i] \in {"--quiet", "-quiet", "--help", "-help"} \/ HasConfigEqPrefix(a[i])
    THEN SplitArgs(a, i + 1, Append(our, a[i]), claude)
    ELSE SplitArgs(a, i + 1, our, Append(claude, a[i]))

NoFlags == [configPath |-> "", quiet |-> FALSE, help |-> FALSE, err |-> FALSE]

\* flag.CommandLine.Parse(ourArgs) with the flags config, quiet and help
\* defined: --config takes the next argument as its value whatever it is and
\* fails without one, a single-dash spelling is read as a group of one-letter
\* flags and fails, an argument without a dash is skipped
RECURSIVE Parse(_, _)
Parse(a, f) ==
    IF a = <<>> THEN f
    ELSE IF Head(a) = "--config"
    THEN IF Len(a) = 1
         THEN [f EXCEPT !.err = TRUE]
         ELSE Parse(SubSeq(a, 3, Len(a)), [f EXCEPT !.configPath = a[2]])
    ELSE IF Head(a) = "--config=alt"
    THEN Parse(Tail(a), [f EXCEPT !.configPath = "alt"])
    ELSE IF Head(a) = "--quiet" THEN Parse(Tail(a), [f EXCEPT !.quiet = TRUE])
    ELSE IF Head(a) = "--help" THEN Parse(Tail(a), [f EXCEPT !.help = TRUE])
    ELSE IF HasDashPrefix(Head(a)) THEN [f EXCEPT !.err = TRUE]
    ELSE Parse(Tail(a), f)

\* ------------------------------------------------------------ config.Load
NoFile == [exists |-> FALSE, topic |-> "", quiet |-> FALSE]

\* what the config file at the default location may hold
DefFiles == { NoFile,
              [exists |-> TRUE, topic |-> "", quiet |-> TRUE],
              [exists |-> TRUE, topic |-> "fileT", quiet |-> FALSE] }

\* the config file at the path "alt"
AltFile == [exists |-> TRUE, topic |-> "altT", quiet |-> TRUE]

\* os.ReadFile(path)
ReadFile(path) ==
    IF path = "default" THEN defFile
    ELSE IF path = "alt" THEN AltFile
    ELSE NoFile

DefaultConfig == [topic |-> "", quiet |-> FALSE]

\* getConfigPath with the environment as it is now
getConfigPath == IF envConfig # "" THEN envConfig ELSE "default"

\* loadFromFile: a missing file is not an error and leaves cfg alone
loadFromFile(c, path) ==
    IF ReadFile(path).exists
    THEN [topic |-> ReadFile(path).topic, quiet |-> ReadFile(path).quiet]
    ELSE c

loadFromEnv(c) ==
    [topic |-> IF envTopic # "" THEN envTopic ELSE c.topic,
     quiet |-> IF envQuiet = "true" THEN TRUE
               ELSE IF envQuiet = "false" THEN FALSE
               ELSE c.quiet]

\* validate: TRUE when it returns an error
validate(c) == c.topic = "" /\ ~c.quiet

\* Load: defaults, then the file, then the environment, then validate
Load ==
    LET c == loadFromEnv(loadFromFile(DefaultConfig, getConfigPath))
    IN  [topic |-> c.topic, quiet |-> c.quiet, defaultArgs |-> defaultArgs,
         path |-> getConfigPath, err |-> validate(c)]

\* ------------------------------------------------------ main, before app.Run
engineVars == <<now, timeout, quiet, startupNotify, wrapped, phase, bnVars, tmVars,
                inflight, omVars, sent, ptyIn, ptVars>>
cliInput == <<osArgs, envTopic, envQuiet, defFile, defaultArgs>>

\* main, first part: split the arguments and parse the wrapper's flags; a
\* parse error ends the process with status 2
MainParse ==
    /\ cliPc = "parse"
    /\ ourArgs' = SplitArgs(osArgs, 1, <<>>, <<>>).ourArgs
    /\ claudeArgs' = SplitArgs(osArgs, 1, <<>>, <<>>).claudeArgs
    /\ flags' = Parse(ourArgs', NoFlags)
    /\ IF flags'.err
       THEN cliExit' = [done |-> TRUE, status |-> 2] /\ cliPc' = "exit"
       ELSE cliPc' = "help" /\ UNCHANGED cliExit
    /\ UNCHANGED <<engineVars, cliInput, envConfig, cfg, args, usage>>

\* main: the wrapper's own help, only when nothing is left for the inner
\* program
MainHelp ==
    /\ cliPc = "help"
    /\ IF flags.help /\ Len(claudeArgs) = 0
       THEN /\ usage' = TRUE
            /\ cliExit' = [done |-> TRUE, status |-> 0]
            /\ cliPc' = "exit"
       ELSE /\ cliPc' = "load"
            /\ UNCHANGED <<usage, cliExit>>
    /\ UNCHANGED <<engineVars, cliInput, envConfig, ourArgs, claudeArgs, flags,
                   cfg, args>>

\* main: cfg, err := config.Load(); an error ends the process with status 1
MainLoad ==
    /\ cliPc = "load"
    /\ cfg' = Load
    /\ IF Load.err
       THEN cliExit' = [done |-> TRUE, status |-> 1] /\ cliPc' = "exit"
       ELSE cliPc' = "override" /\ UNCHANGED cliExit
    /\ UNCHANGED <<engineVars, cliInput, envConfig, ourArgs, claudeArgs, flags,
                   args, usage>>

\* main: "Override config with command line flags"
MainOverride ==
    /\ cliPc = "override"
    /\ envConfig' = IF flags.configPath # "" THEN flags.configPath ELSE envConfig
    /\ cfg' = IF flags.quiet THEN [cfg EXCEPT !.quiet = TRUE] ELSE cfg
    /\ cliPc' = "merge"
    /\ UNCHANGED <<engineVars, cliInput, ourArgs, claudeArgs, flags, args, usage,
                   cliExit>>

\* main: the inner program is looked up (an error ends the process with
\* status 1) and the default arguments are put before the user's
MainMerge ==
    /\ cliPc = "merge"
    /\ \E found \in BOOLEAN :
          IF found
          THEN /\ args' = cfg.defaultArgs \o claudeArgs
               /\ cliPc' = "run"
               /\ UNCHANGED cliExit
          ELSE /\ cliExit' = [done |-> TRUE, status |-> 1]
               /\ cliPc' = "exit"
               /\ UNCHANGED args
    /\ UNCHANGED <<engineVars, cliInput, envConfig, ourArgs, claudeArgs, flags,
                   cfg, usage>>

\* ----------------------------------------- TerminalSequenceDetector alone
dsRest == <<now, cfgVars, phase, bnVars, tmVars, inflight, lineBuffer, hdPc, cur,
            todo, observe, sent, ptyIn, envVars, sigVars, procVars, termVars,
            ioVars, rdVars, lkVars, btVars, tbVars, rpVars>>

Filler == [i \in 1..(KeepLen - 2) |-> 120]

\* data for the detector: text, a long run of text, the two halves of
\* ESC [ 2 J, a whole ESC c, and two sequences in one piece
DetectChunks ==
    { <<120>>, Filler, <<ESC, 91>>, <<50, 74>>, <<ESC, 99>>,
      <<ESC, 91, 50, 74, ESC, 99>> }

\* slip: the buffer is emptied after every call
DetectSequences_NoCarry(data) ==
    /\ dsCalls < MaxDetects
    /\ dsCalls' = dsCalls + 1
    /\ buffer' = <<>>
    /\ dsFired' = IF foundClear(buffer \o data) THEN 1 ELSE 0
    /\ screenClearCount' = screenClearCount + dsFired'
    /\ dsPrev' = dsData
    /\ dsData' = data
    /\ dsStream' = dsStream \o data
    /\ UNCHANGED dsRest

\* DetectSequences(data, handler) with a handler that counts: append, call
\* HandleScreenClear once if the buffer holds any clear sequence, keep the
\* last KeepLen bytes
DetectSequences(data) ==
    /\ dsCalls < MaxDetects
    /\ dsCalls' = dsCalls + 1
    /\ buffer' = Truncate(buffer \o data)
    /\ dsFired' = IF foundClear(buffer \o data) THEN 1 ELSE 0
    /\ screenClearCount' = screenClearCount + dsFired'
    /\ dsPrev' = dsData
    /\ dsData' = data
    /\ dsStream' = dsStream \o data
    /\ UNCHANGED dsRest

\* ------------------------------------------------- TokenBucketRateLimiter
tbRest == <<cfgVars, phase, bnVars, tmVars, inflight, omVars, sent, ptyIn,
            envVars, sigVars, procVars, termVars, ioVars, rdVars, lkVars, btVars, dsVars, rpVars>>

min(a, b) == IF a < b THEN a ELSE b

\* NewTokenBucketRateLimiter(capacity, refillRate) at time 0
NewTokenBucketRateLimiter(c, r) ==
    [capacity |-> c, tokens |-> c, refillRate |-> r, lastRefill |-> 0]

\* int(elapsed / tb.refillRate)
tokensToAdd == (now - lastRefill) \div refillRate

\* slip: the refill is not capped at the capacity
Allow_NoCap ==
    /\ calls < MaxCalls
    /\ calls' = calls + 1
    /\ LET refilled == IF tokensToAdd > 0 THEN tokens + tokensToAdd ELSE tokens
       IN  /\ tokens' = IF refilled > 0 THEN refilled - 1 ELSE refilled
           /\ allowed' = IF refilled > 0 THEN allowed + 1 ELSE allowed
    /\ lastRefill' = IF tokensToAdd > 0 THEN now ELSE lastRefill
    /\ UNCHANGED <<now, capacity, refillRate, resets, tbRest>>

\* Allow, under tb.mu: refill by the whole periods elapsed, capped at the
\* capacity, then take a token if there is one
Allow ==
    /\ calls < MaxCalls
    /\ calls' = calls + 1
    /\ LET refilled == IF tokensToAdd > 0
                       THEN min(capacity, tokens + tokensToAdd) ELSE tokens
       IN  /\ tokens' = IF refilled > 0 THEN refilled - 1 ELSE refilled
           /\ allowed' = IF refilled > 0 THEN allowed + 1 ELSE allowed
    /\ lastRefill' = IF tokensToAdd > 0 THEN now ELSE lastRefill
    /\ UNCHANGED <<now, capacity, refillRate, resets, tbRest>>

\* Reset, under tb.mu
Reset ==
    /\ resets = 0
    /\ resets' = 1
    /\ tokens' = capacity
    /\ lastRefill' = now
    /\ UNCHANGED <<now, capacity, refillRate, calls, allowed, tbRest>>

BucketTick ==
    /\ now < BucketTime
    /\ now' = now + 1
    /\ UNCHANGED <<tbVars, tbRest>>

\* ------------------------------------------------------------------ Batcher
\* Every method holds b.mu for the part modelled as one step.  flush gives the
\* lock up only around the callback, after pending was copied and cleared.
btRest == <<now, cfgVars, phase, bnVars, tmVars, inflight, omVars, sent, ptyIn,
            envVars, sigVars, procVars, termVars, ioVars, rdVars, lkVars, tbVars, dsVars, rpVars>>

\* Add(n): append, and start the window timer when b.timer is nil
Add ==
    /\ added < MaxAdds
    /\ added' = added + 1
    /\ pending' = Append(pending, added + 1)
    /\ bTimer' = IF bTimer = "nil" THEN "scheduled" ELSE bTimer
    /\ UNCHANGED <<bOrphans, bInflight, bFlushers, bFlushes, delivered, btRest>>

\* slip: flush hands the pending notifications over without clearing them
flush_KeepPending ==
    IF Len(pending) = 0
    THEN /\ bTimer' = "nil"
         /\ UNCHANGED <<pending, delivered>>
    ELSE /\ delivered' = Append(delivered, pending)
         /\ pending' = pending
         /\ bTimer' = "nil"

\* flush: nothing pending, forget the timer; otherwise copy, clear, forget
\* the timer and call the callback with the copy
flush ==
    IF Len(pending) = 0
    THEN /\ bTimer' = "nil"
         /\ UNCHANGED <<pending, delivered>>
    ELSE /\ delivered' = Append(delivered, pending)
         /\ pending' = <<>>
         /\ bTimer' = "nil"

\* the window of the timer b.timer points to elapses: the runtime starts
\* b.flush in its own goroutine
BatchTimerExpire ==
    /\ bTimer = "scheduled"
    /\ bTimer' = "expired"
    /\ bInflight' = bInflight + 1
    /\ UNCHANGED <<pending, bOrphans, bFlushers, bFlushes, added, delivered, btRest>>

\* the same for a scheduled timer that flush has already forgotten
BatchOrphanExpire ==
    /\ bOrphans > 0
    /\ bOrphans' = bOrphans - 1
    /\ bInflight' = bInflight + 1
    /\ UNCHANGED <<pending, bTimer, bFlushers, bFlushes, added, delivered, btRest>>

\* a started timer callback obtains b.mu and runs flush
BatchTimerFlush ==
    /\ bInflight > 0
    /\ bInflight' = bInflight - 1
    /\ flush
    /\ bOrphans' = IF bTimer = "scheduled" THEN bOrphans + 1 ELSE bOrphans
    /\ UNCHANGED <<bFlushers, bFlushes, added, btRest>>

\* Flush, first part: under b.mu, stop the timer (b.timer stays set)
FlushStop ==
    /\ bFlushes < MaxFlushes
    /\ bFlushes' = bFlushes + 1
    /\ bTimer' = IF bTimer = "scheduled" THEN "stopped" ELSE bTimer
    /\ bFlushers' = bFlushers + 1
    /\ UNCHANGED <<pending, bOrphans, bInflight, added, delivered, btRest>>

\* Flush, second part: b.flush()
FlushFlush ==
    /\ bFlushers > 0
    /\ bFlushers' = bFlushers - 1
    /\ flush
    /\ bOrphans' = IF bTimer = "scheduled" THEN bOrphans + 1 ELSE bOrphans
    /\ UNCHANGED <<bInflight, bFlushes, added, btRest>>

\* -------------------------------------------------------------------- locks
\* The same operations at the grain of the two mutexes.  MarkActivity,
\* SetBackstopSent, ResetSession and Close hold bn.mu for a body that cannot
\* block, so each is one step that needs bn.mu free.  Send and
\* sendBackstopNotification call underlying.Send with bn.mu held ("defer
\* bn.mu.Unlock()"): the lock is taken in one step and given back in a later
\* one, when the sink's call returns.

\* the clock, as far as the lock-grain specification follows it
LkTick ==
    /\ phase # "exited"
    /\ now < LockTime
    /\ now' = now + 1
    /\ UNCHANGED <<cfgVars, ptVars, ptyIn, phase, bnVars, tmVars, inflight, omVars, sent>>

\* Application.Run: the startup Send takes bn.mu and calls the sink; both
\* callers of the sink discard its answer
LkStartupSend ==
    /\ phase = "created"
    /\ bnMu = "free"
    /\ phase' = "started"
    /\ Send("startup", TRUE)
    /\ bnMu' = "main"
    /\ UNCHANGED <<now, cfgVars, ptyIn, inflight, omVars, omMu,
                   envVars, sigVars, procVars, termVars, ioVars, rdVars, btVars, tbVars, dsVars, rpVars>>

\* the sink's call returns, Send unlocks bn.mu and Run starts the child
LkStartupReturn ==
    /\ phase = "started"
    /\ bnMu = "main"
    /\ bnMu' = "free"
    /\ phase' = "running"
    /\ UNCHANGED <<now, cfgVars, ptyIn, bnVars, tmVars, inflight, omVars, sent, omMu,
                   envVars, sigVars, procVars, termVars, ioVars, rdVars, btVars, tbVars, dsVars, rpVars>>

\* slip: the callback gives bn.mu back before it calls the sink
LkCallback_Unlocked ==
    /\ phase # "exited"
    /\ inflight > 0
    /\ bnMu = "free"
    /\ inflight' = inflight - 1
    /\ \/ fresh > 0 /\ fresh' = fresh - 1
       \/ inflight > fresh /\ fresh' = fresh
    /\ live' = live
    /\ sendBackstopNotification(TRUE)
    /\ bnMu' = "free"
    /\ UNCHANGED <<now, cfgVars, ptyIn, phase, omVars, omMu,
                   envVars, sigVars, procVars, termVars, ioVars, rdVars, btVars, tbVars, dsVars, rpVars>>

\* a started callback obtains bn.mu; it returns at once when backstopSent is
\* set, otherwise it calls the sink and keeps bn.mu
LkCallback ==
    /\ phase # "exited"
    /\ inflight > 0
    /\ bnMu = "free"
    /\ inflight' = inflight - 1
    /\ \/ fresh > 0 /\ fresh' = fresh - 1
       \/ inflight > fresh /\ fresh' = fresh
    /\ live' = live
    /\ sendBackstopNotification(TRUE)
    /\ bnMu' = IF backstopSent THEN "free" ELSE "timer"
    /\ UNCHANGED <<now, cfgVars, ptyIn, phase, omVars, omMu,
                   envVars, sigVars, procVars, termVars, ioVars, rdVars, btVars, tbVars, dsVars, rpVars>>

\* slip: before it returns the callback asks the monitor, under om.mu, for
\* the time of the last output
LkCallbackReturn_ViaMonitor ==
    /\ phase # "exited"
    /\ bnMu = "timer"
    /\ omMu = "free"
    /\ bnMu' = "free"
    /\ UNCHANGED <<now, cfgVars, ptyIn, phase, bnVars, tmVars, inflight, omVars, sent,
                   omMu, envVars, sigVars, procVars, termVars, ioVars, rdVars, btVars, tbVars, dsVars, rpVars>>

\* the sink's call returns and the callback unlocks bn.mu
LkCallbackReturn ==
    /\ phase # "exited"
    /\ bnMu = "timer"
    /\ bnMu' = "free"
    /\ UNCHANGED <<now, cfgVars, ptyIn, phase, bnVars, tmVars, inflight, omVars, sent,
                   omMu, envVars, sigVars, procVars, termVars, ioVars, rdVars, btVars, tbVars, dsVars, rpVars>>

\* the output pump calls HandleData(data)
LkHandleData(data) ==
    /\ phase = "running"
    /\ hdPc = "idle"
    /\ Len(buffer) + Len(data) <= LockStream
    /\ cur' = data
    /\ hdPc' = "detect"
    /\ observe' = [bell |-> Contains(data, <<BEL>>), delivered |-> FALSE]
    /\ UNCHANGED <<now, cfgVars, ptVars, ptyIn, phase, bnVars, tmVars, inflight,
                   buffer, lineBuffer, todo, sent>>

\* DetectSequences, before om.mu is taken; on a screen clear
\* HandleScreenClear -> ResetSession needs bn.mu
LkDetect ==
    /\ phase # "exited"
    /\ hdPc = "detect"
    /\ buffer' = Truncate(buffer \o cur)
    /\ hdPc' = "lock"
    /\ IF foundClear(buffer \o cur) /\ wrapped
       THEN bnMu = "free" /\ ResetSession
       ELSE UNCHANGED <<bnVars, tmVars>>
    /\ UNCHANGED <<now, cfgVars, ptVars, ptyIn, phase, inflight, lineBuffer, cur,
                   todo, observe, sent>>

\* om.mu.Lock()
LkLock ==
    /\ phase # "exited"
    /\ hdPc = "lock"
    /\ omMu = "free"
    /\ omMu' = "pump"
    /\ hdPc' = "mark"
    /\ UNCHANGED <<now, cfgVars, ptyIn, phase, bnVars, tmVars, inflight, buffer,
                   lineBuffer, cur, todo, observe, sent, bnMu,
                   envVars, sigVars, procVars, termVars, ioVars, rdVars, btVars, tbVars, dsVars, rpVars>>

\* under om.mu: MarkActivity, which needs bn.mu, and the split into lines;
\* om.mu is given back when HandleData returns
LkMark ==
    /\ phase # "exited"
    /\ hdPc = "mark"
    /\ omMu = "pump"
    /\ IF wrapped THEN bnMu = "free" /\ MarkActivity ELSE UNCHANGED <<bnVars, tmVars>>
    /\ todo' = CompleteLines(lineBuffer \o cur)
    /\ lineBuffer' = IncompleteLine(lineBuffer \o cur)
    /\ hdPc' = IF CompleteLines(lineBuffer \o cur) = <<>> THEN "idle" ELSE "lines"
    /\ omMu' = IF CompleteLines(lineBuffer \o cur) = <<>> THEN "free" ELSE "pump"
    /\ cur' = <<>>
    /\ UNCHANGED <<now, cfgVars, ptyIn, phase, inflight, buffer, observe, sent, bnMu,
                   envVars, sigVars, procVars, termVars, ioVars, rdVars, btVars, tbVars, dsVars, rpVars>>

\* processLine under om.mu; a bell calls SetBackstopSent, which needs bn.mu
LkLine ==
    /\ phase # "exited"
    /\ hdPc = "lines"
    /\ omMu = "pump"
    /\ (Contains(Head(todo), <<BEL>>) /\ wrapped) => bnMu = "free"
    /\ processLine(Head(todo))
    /\ todo' = Tail(todo)
    /\ hdPc' = IF Tail(todo) = <<>> THEN "idle" ELSE "lines"
    /\ omMu' = IF Tail(todo) = <<>> THEN "free" ELSE "pump"
    /\ observe' = [observe EXCEPT
                      !.delivered = @ \/ (wrapped /\ Contains(Head(todo), <<BEL>>))]
    /\ UNCHANGED <<now, cfgVars, ptyIn, phase, inflight, buffer, lineBuffer, cur,
                   sent, bnMu, envVars, sigVars, procVars, termVars, ioVars, rdVars, btVars, tbVars, dsVars, rpVars>>

\* a panic unwinds main: the deferred deps.Close() needs bn.mu
LkClose ==
    /\ phase = "running"
    /\ bnMu = "free"
    /\ phase' = "closed"
    /\ IF wrapped THEN Close ELSE UNCHANGED <<bnVars, tmVars>>
    /\ UNCHANGED <<now, cfgVars, ptVars, ptyIn, inflight, omVars, sent>>

\* the output pump is inside a call that needs bn.mu
PumpNeedsGate ==
    /\ wrapped
    /\ \/ hdPc = "detect" /\ foundClear(buffer \o cur)
       \/ hdPc = "mark"
       \/ hdPc = "lines" /\ Contains(Head(todo), <<BEL>>)

\* a sink call is executing with bn.mu held
SendExecuting == bnMu \in {"main", "timer"}

\* ------------------------------------------------------------ specification
\* NewDependencies: the notifier is wrapped when cfg.BackstopTimeout > 0; a
\* BackstopNotifier may also be constructed directly with a zero timeout.
NewDependencies(cfgTimeout) == cfgTimeout > 0

\* main has come as far as app.Run: no command-line arguments, the topic
\* taken from the environment, no config file
CliStarted ==
    /\ osArgs = <<>>
    /\ envTopic = "envT"
    /\ envQuiet = ""
    /\ envConfig = ""
    /\ defFile = NoFile
    /\ defaultArgs = <<>>
    /\ cliPc = "run"
    /\ ourArgs = <<>>
    /\ claudeArgs = <<>>
    /\ flags = [configPath |-> "", quiet |-> FALSE, help |-> FALSE, err |-> FALSE]
    /\ cfg = [topic |-> "envT", quiet |-> FALSE, defaultArgs |-> <<>>,
              path |-> "default", err |-> FALSE]
    /\ args = <<>>
    /\ usage = FALSE
    /\ cliExit = [done |-> FALSE, status |-> 0]

\* the transport after NewPTYManager, before Start
\* NewBatcher(window, callback): nothing pending, no timer
NewBatcher ==
    /\ pending = <<>>
    /\ bTimer = "nil"
    /\ bOrphans = 0
    /\ bInflight = 0
    /\ bFlushers = 0
    /\ bFlushes = 0
    /\ added = 0
    /\ delivered = <<>>

\* Read has not been called directly
NoReads ==
    /\ rdCalls = 0
    /\ rdLenP = 0
    /\ rdN = 0
    /\ rdStored = <<>>

\* the detector has not been called
NoDetections ==
    /\ screenClearCount = 0
    /\ dsCalls = 0
    /\ dsPrev = <<>>
    /\ dsData = <<>>
    /\ dsFired = 0
    /\ dsStream = <<>>

\* no rate limiter has been created
NoBucket ==
    /\ capacity = 0
    /\ tokens = 0
    /\ refillRate = 1
    /\ lastRefill = 0
    /\ calls = 0
    /\ allowed = 0
    /\ resets = 0

LocksFree ==
    /\ bnMu = "free"
    /\ omMu = "free"

PtCreated ==
    /\ mainPc = "start"
    /\ startFailed = FALSE
    /\ child = "none"
    /\ childStatus = [kind |-> "none", n |-> 0]
    /\ ptyOpen = FALSE
    /\ exitCode = 0
    /\ exit = [done |-> FALSE, status |-> 0, via |-> "none"]
    /\ termRaw = FALSE
    /\ restoreFunc = FALSE
    /\ restoreCalls = 0
    /\ rawEntries = 0
    /\ ioPc = "none"
    /\ sigPc = "idle"
    /\ shutdownSig = "none"
    /\ termSent = FALSE
    /\ fwdPc = "none"
    /\ fwdChan = "none"
    /\ forwarded = {}
    /\ inPump = "none"
    /\ eofAt = 0
    /\ outPump = "none"
    /\ LocksFree
    /\ NewBatcher
    /\ NoDetections
    /\ NoReads
    /\ ptyPending = <<>>
    /\ writes = 0
    /\ rbuf = <<>>
    /\ ptyOut = <<>>
    /\ termOut = <<>>
    /\ handled = <<>>

\* the dependencies as NewDependencies builds them, under every configuration
Created ==
    /\ PtCreated
    /\ NoBucket
    /\ CliStarted
    /\ now = 0
    /\ timeout \in Timeouts
    /\ quiet \in BOOLEAN
    /\ startupNotify \in BOOLEAN
    /\ wrapped \in {NewDependencies(timeout), TRUE}
    /\ phase = "created"
    /\ backstopSent = NewBackstopNotifier(timeout).backstopSent
    /\ timer = IF wrapped THEN NewBackstopNotifier(timeout).timer ELSE Nil
    /\ lastActivityTime = NewBackstopNotifier(timeout).lastActivityTime
    /\ live = IF wrapped /\ timeout > 0 THEN 1 ELSE 0
    /\ fresh = 0
    /\ inflight = 0
    /\ buffer = <<>>
    /\ lineBuffer = <<>>
    /\ hdPc = "idle"
    /\ cur = <<>>
    /\ todo = <<>>
    /\ observe = [bell |-> FALSE, delivered |-> FALSE]
    /\ ptyIn = 0
    /\ sent = <<>>
    /\ session = 0
    /\ epoch = 0
    /\ cause = "none"
    /\ postponed = FALSE
    /\ bellSession = -1
    /\ resetFrom = "none"

Init ==
    /\ Created
    /\ marker = FALSE
    /\ stdinTTY = TRUE

Next ==
    \/ Tick
    \/ TimerExpire
    \/ TimerCallback
    \/ RunStartup
    \/ RunStart
    \/ \E data \in Chunks : HandleDataDetect(data)
    \/ HandleDataMark
    \/ HandleDataLine
    \/ Exit
    \/ DepsClose
    \/ Crash

Spec == Init /\ [][Next]_vars

\* Both pumps of CopyIO on a wrapped notifier with a deadline and no startup
\* notification: the output pump as above, with bells that do not end their
\* line, and the input pump.
InitIO ==
    /\ Init
    /\ wrapped
    /\ timeout = MaxTimeout
    /\ ~quiet
    /\ ~startupNotify

NextIO ==
    \/ Tick
    \/ TimerExpire
    \/ TimerCallback
    \/ RunStartup
    \/ RunStart
    \/ \E data \in ChunksIO : HandleDataDetect(data)
    \/ HandleDataMark
    \/ HandleDataLine
    \/ InputCopy
    \/ Exit

SpecIO == InitIO /\ [][NextIO]_vars

\* The output pump alone: the notifier is not wrapped (nothing to observe),
\* the child runs, CopyIO has started the pump, and the child's writes reach
\* the reader in every possible chunking.
ReaderChunks == { <<97>>, <<98, 99>>, FocusOn }

\* NewDependencies with BackstopTimeout = 0: the notifier is not wrapped, and
\* the output monitor has nothing to mark or reset
NoBackstop ==
    /\ now = 0
    /\ timeout = 0
    /\ quiet = FALSE
    /\ startupNotify = FALSE
    /\ wrapped = NewDependencies(0)
    /\ phase = "created"
    /\ backstopSent = FALSE
    /\ timer = Nil
    /\ lastActivityTime = 0
    /\ live = 0
    /\ fresh = 0
    /\ inflight = 0
    /\ buffer = <<>>
    /\ lineBuffer = <<>>
    /\ hdPc = "idle"
    /\ cur = <<>>
    /\ todo = <<>>
    /\ observe = [bell |-> FALSE, delivered |-> FALSE]
    /\ ptyIn = 0
    /\ sent = <<>>
    /\ session = 0
    /\ epoch = 0
    /\ cause = "none"
    /\ postponed = FALSE
    /\ bellSession = -1
    /\ resetFrom = "none"

\* The transport from Start to the end of the wrapper process: the main
\* goroutine, the CopyIO goroutine with its two pumps, main's shutdown-signal
\* goroutine and the child.
ProcChunks == { <<120>> }

InitProc ==
    /\ NoBackstop
    /\ CliStarted
    /\ PtCreated
    /\ NoBucket
    /\ marker \in BOOLEAN
    /\ stdinTTY \in BOOLEAN

NextProc ==
    \/ MainStart
    \/ MainReap
    \/ MainWaitStop
    \/ MainExit
    \/ MainPanic
    \/ MainRecover
    \/ SigReceive
    \/ SigDeliver
    \/ forwardSignals
    \/ SigStop
    \/ SigExit
    \/ CopyIOSetRaw
    \/ CopyIOStore
    \/ StdinEOF
    \/ OutputEnd
    \/ CopyIORelease
    \/ ChildExit
    \/ \E chunk \in ProcChunks : ChildWrite(chunk)
    \/ OutputCopy

SpecProc == InitProc /\ [][NextProc]_vars

\* main from its first statement to app.Run, over every command line of up
\* to MaxArgs arguments and every combination of environment and config file
InitCli ==
    /\ NoBackstop
    /\ PtCreated
    /\ NoBucket
    /\ marker = FALSE
    /\ stdinTTY = TRUE
    /\ osArgs \in ArgLists
    /\ envTopic \in {"", "envT"}
    /\ envQuiet \in {"", "true", "false"}
    /\ envConfig = ""
    /\ defFile \in DefFiles
    /\ defaultArgs \in {<<>>, <<"-d">>}
    /\ cliPc = "parse"
    /\ ourArgs = <<>>
    /\ claudeArgs = <<>>
    /\ flags = NoFlags
    /\ cfg = [topic |-> "", quiet |-> FALSE, defaultArgs |-> <<>>,
              path |-> "", err |-> FALSE]
    /\ args = <<>>
    /\ usage = FALSE
    /\ cliExit = [done |-> FALSE, status |-> 0]

NextCli ==
    \/ MainParse
    \/ MainHelp
    \/ MainLoad
    \/ MainOverride
    \/ MainMerge

SpecCli == InitCli /\ [][NextCli]_vars

InitReader ==
    /\ NoBackstop
    /\ CliStarted
    /\ marker = FALSE
    /\ stdinTTY = TRUE
    /\ mainPc = "wait"
    /\ startFailed = FALSE
    /\ child = "running"
    /\ childStatus = [kind |-> "none", n |-> 0]
    /\ ptyOpen = TRUE
    /\ exitCode = 0
    /\ exit = [done |-> FALSE, status |-> 0, via |-> "none"]
    /\ termRaw = stdinTTY
    /\ restoreFunc = stdinTTY
    /\ restoreCalls = 0
    /\ rawEntries = IF stdinTTY THEN 1 ELSE 0
    /\ LocksFree
    /\ NewBatcher
    /\ NoDetections
    /\ NoReads
    /\ NoBucket
    /\ ioPc = "pumps"
    /\ sigPc = "idle"
    /\ shutdownSig = "none"
    /\ termSent = FALSE
    /\ fwdPc = "running"
    /\ fwdChan = "none"
    /\ forwarded = {}
    /\ inPump = "running"
    /\ eofAt = 0
    /\ outPump = "running"
    /\ ptyPending = <<>>
    /\ writes = 0
    /\ rbuf = <<>>
    /\ ptyOut = <<>>
    /\ termOut = <<>>
    /\ handled = <<>>

NextReader ==
    \/ \E chunk \in ReaderChunks : ChildWrite(chunk)
    \/ OutputCopy

SpecReader == InitReader /\ [][NextReader]_vars

\* The engine at the grain of the locks, for one configuration: a wrapped
\* notifier with a deadline and a startup notification.  Mutexes hand over to
\* a waiting goroutine and every sink call returns.
InitLock ==
    /\ Init
    /\ wrapped
    /\ timeout = MaxTimeout
    /\ startupNotify
    /\ ~quiet

NextLock ==
    \/ LkTick
    \/ TimerExpire
    \/ LkStartupSend
    \/ LkStartupReturn
    \/ LkCallback
    \/ LkCallbackReturn
    \/ \E data \in Chunks : LkHandleData(data)
    \/ LkDetect
    \/ LkLock
    \/ LkMark
    \/ LkLine
    \/ LkClose
    \/ Crash
    \/ Exit

SpecLock ==
    /\ InitLock
    /\ [][NextLock]_vars
    /\ WF_vars(LkStartupReturn)
    /\ WF_vars(LkCallbackReturn)
    /\ SF_vars(LkCallback)
    /\ SF_vars(LkDetect)
    /\ WF_vars(LkLock)
    /\ SF_vars(LkMark)
    /\ SF_vars(LkLine)

\* The Batcher alone: concurrent Add and Flush callers and its window timer.
InitBatch ==
    /\ NoBackstop
    /\ CliStarted
    /\ PtCreated
    /\ NoBucket
    /\ marker = FALSE
    /\ stdinTTY = TRUE

NextBatch ==
    \/ Add
    \/ BatchTimerExpire
    \/ BatchOrphanExpire
    \/ BatchTimerFlush
    \/ FlushStop
    \/ FlushFlush

SpecBatch == InitBatch /\ [][NextBatch]_vars

\* The rate limiter alone: concurrent Allow and Reset callers and the clock.
InitBucket ==
    /\ NoBackstop
    /\ CliStarted
    /\ PtCreated
    /\ marker = FALSE
    /\ stdinTTY = TRUE
    /\ \E c \in 0..MaxCapacity, r \in 1..MaxRefillRate :
          /\ capacity = NewTokenBucketRateLimiter(c, r).capacity
          /\ tokens = NewTokenBucketRateLimiter(c, r).tokens
          /\ refillRate = NewTokenBucketRateLimiter(c, r).refillRate
          /\ lastRefill = NewTokenBucketRateLimiter(c, r).lastRefill
    /\ calls = 0
    /\ allowed = 0
    /\ resets = 0

NextBucket ==
    \/ Allow
    \/ Reset
    \/ BucketTick

SpecBucket == InitBucket /\ [][NextBucket]_vars

\* The detector alone, fed piece by piece.
InitDetect ==
    /\ NoBackstop
    /\ CliStarted
    /\ PtCreated
    /\ NoBucket
    /\ marker = FALSE
    /\ stdinTTY = TRUE

NextDetect == \E data \in DetectChunks : DetectSequences(data)

SpecDetect == InitDetect /\ [][NextDetect]_vars

\* outputReader.Read alone, called with buffers of every small size.
InitRead ==
    /\ NoBackstop
    /\ CliStarted
    /\ PtCreated
    /\ NoBucket
    /\ marker = FALSE
    /\ stdinTTY = TRUE

NextRead == ReadCall

SpecRead == InitRead /\ [][NextRead]_vars

\* Application.Run from its first statement to the end of a start that
\* failed or succeeded: the startup notification, then Manager.Start, with the
\* self-wrap marker set or not, while the notifier's timer runs.
InitRun ==
    /\ Created
    /\ marker \in BOOLEAN
    /\ stdinTTY = TRUE

\* Run's second statement: ProcessManager.Start
RunManagerStart ==
    /\ phase = "started"
    /\ MainStart

NextRun ==
    \/ RunStartup
    \/ RunManagerStart
    \/ MainExit
    \/ ~exit.done /\ Tick
    \/ ~exit.done /\ TimerExpire
    \/ ~exit.done /\ TimerCallback

SpecRun == InitRun /\ [][NextRun]_vars

TypeOK ==
    /\ now \in 0..MaxTime
    /\ timeout \in Timeouts
    /\ phase \in {"created", "started", "running", "closed", "exited"}
    /\ backstopSent \in BOOLEAN
    /\ inflight \in Nat
    /\ live \in 0..1
    /\ fresh \in 0..inflight
    /\ hdPc \in {"idle", "detect", "lock", "mark", "lines"}
    /\ cause \in {"none", "fired", "bell"}

\* ------------------------------------------------------------------ claims

C2_BellDisarmsUntilReset ==
    \A i \in Backstops : ~sent[i].afterBell

\* C3: with quiet set the sink is never handed any notification.
C3_QuietNeverNotifies ==
    quiet => sent = <<>>

\* C4: output received while Armed at t' before the deadline postpones the
\* backstop: none is sent before t' + deadline.
C4_OutputPostpones ==
    \A i \in Backstops :
        sent[i].postponed => sent[i].at >= sent[i].since + timeout

\* C5: an Armed engine that receives no further events sends its backstop
\* not before the deadline has elapsed since it was armed.
C5_NotBeforeDeadline ==
    \A i \in Backstops : sent[i].at - sent[i].since >= timeout

\* C6: with a deadline of 0 the sink never receives a backstop notification.
C6_ZeroDeadlineDisables ==
    timeout = 0 => Backstops = {}

\* a zero-deadline notifier that has seen a forwarded send, a session reset,
\* output and a bell, with time passing
C6_Witness ==
    /\ timeout = 0
    /\ wrapped
    /\ Startups # {}
    /\ session >= 1
    /\ cause = "bell"
    /\ now >= 1

\* C7: a session reset delivered in any engine state with deadline > 0 leaves
\* the engine Armed with the timer scheduled for now + deadline.
C7_ResetRearms ==
    [][(session' # session /\ timeout > 0)
          => (Armed' /\ timer'.deadline = now + timeout)]_vars

\* a reset found the engine Fired and the new session got its own backstop
C7_Witness ==
    /\ resetFrom = "Fired"
    /\ timeout > 0
    /\ \E i \in Backstops : sent[i].session = session

C9_StartupIffEnabled ==
    /\ Cardinality(Startups) <= 1
    /\ phase = "created" => Startups = {}
    /\ phase # "created" => (Startups # {} <=> (startupNotify /\ ~quiet))

\* Run has sent the startup notification
C9_Witness ==
    phase # "created" /\ Startups # {} /\ startupNotify /\ ~quiet

\* C10 (as stated): delivering the startup notification changes neither the
\* engine state nor the backstop timer.
C10_StartupBypassesEngine ==
    [][(phase = "created" /\ phase' = "started")
          => (timer' = timer /\ backstopSent' = backstopSent)]_vars

\* C10 (amended): with a backstop notifier the startup notification goes
\* through BackstopNotifier.Send, after the timer was armed at construction:
\* it clears backstopSent and reschedules the timer to now + deadline;
\* without one it leaves the engine alone.
C10_StartupRearmsEngine ==
    [][(phase = "created" /\ phase' = "started" /\ sent' # sent)
          => /\ (wrapped /\ timeout > 0)
                   => (Armed' /\ timer'.deadline = now + timeout
                              /\ lastActivityTime' = now)
             /\ wrapped => ~backstopSent'
             /\ ~wrapped => UNCHANGED <<backstopSent, timer, lastActivityTime>>]_vars

\* the startup notification went out after construction and moved the timer
C10_Witness ==
    /\ wrapped
    /\ timeout > 0
    /\ phase = "started"
    /\ \E i \in Startups : sent[i].at > 0 /\ sent[i].since = sent[i].at
    /\ timer.active
    /\ timer.deadline > timeout

\* C11: when a chunk passed to HandleData contains the byte 0x07, the bell
\* has been delivered to the notifier (SetBackstopSent) by the time the call
\* returns, wherever in the chunk the byte is.
C11_BellDeliveredBeforeReturn ==
    (wrapped /\ hdPc = "idle" /\ observe.bell) => observe.delivered

C13_OutputByteIdentical ==
    termOut = ptyOut

\* C14: when the wrapper process has ended and raw mode had been entered,
\* the terminal is no longer in raw mode, whichever path ended the process.
C14_TerminalRestoredAtExit ==
    (exit.done /\ rawEntries > 0) => ~termRaw

\* C15: the restore function is called at most once for each raw-mode entry,
\* however Stop, the deferred release of CopyIO and Wait interleave.
C15_RestoreAtMostOnce ==
    restoreCalls <= rawEntries

\* Wait's Stop, the signal goroutine's Stop and the deferred release have all
\* run, and the restore function was called once
C15_Witness ==
    /\ restoreCalls = 1
    /\ mainPc = "exit"
    /\ sigPc = "exit"
    /\ ioPc = "done"
    /\ ~termRaw

\* C16: end-of-file on stdin ends the input pump only. The output pump ends
\* only when the PTY master has nothing more to give, and each byte it reads
\* until then is handed to the output handler.
C16_OutputPumpOutlivesInput ==
    /\ outPump = "done" => MasterEOF
    /\ handled = ptyOut

\* after stdin ended, child output was read, written to stdout and handed to
\* the handler, and the output pump is still running
C16_Witness ==
    /\ inPump = "done"
    /\ outPump = "running"
    /\ Len(ptyOut) > eofAt
    /\ Len(handled) > eofAt
    /\ Len(termOut) > eofAt

\* C17: with the self-wrap marker set, Start returns an error, no PTY is
\* allocated and no child is spawned.
C17_SelfWrapRefused ==
    marker => /\ child = "none"
              /\ ~ptyOpen
              /\ ioPc = "none"
              /\ mainPc # "start" => startFailed

\* Start has refused and the wrapper has ended
C17_Witness ==
    marker /\ startFailed /\ exit.done /\ exit.via = "main"

\* C18: when Start fails (marker set, PTY allocation or exec failure), the
\* wrapper process ends with status 1.
C18_StartFailureExitsOne ==
    (exit.done /\ exit.via = "main" /\ startFailed) => exit.status = 1

\* C19: when the child exits with status c, ExitCode() is c once the child
\* is reaped, and a wrapper that ends through main's os.Exit (not through
\* the shutdown-signal goroutine or a panic) ends with status c.
C19_ExitCodeFidelity ==
    childStatus.kind = "exit" =>
        /\ child = "reaped" => exitCode = childStatus.n
        /\ (exit.done /\ exit.via = "main") => exit.status = childStatus.n

\* the child exited with 42 and the wrapper has ended through main
C19_Witness ==
    /\ childStatus = [kind |-> "exit", n |-> 42]
    /\ exit.done
    /\ exit.via = "main"
    /\ exit.status = 42

\* C20: when the child is terminated by signal s, ExitCode() is 128 + s once
\* the child is reaped, and a wrapper that ends through main's os.Exit ends
\* with status 128 + s.
C20_SignalDeathExitCode ==
    childStatus.kind = "signal" =>
        /\ child = "reaped" => exitCode = 128 + childStatus.n
        /\ (exit.done /\ exit.via = "main") => exit.status = 128 + childStatus.n

C22_NoSigintHandling ==
    stdinTTY => ("INT" \notin Notified /\ "INT" \notin forwarded)

\* C22 (amended): whether or not stdin is a terminal, SIGINT is among the
\* signals the wrapper handles; a SIGINT that arrives starts the shutdown in
\* main's goroutine, and every signal forwardSignals takes from its channel
\* while the child runs is sent on to the child, SIGINT included.
C22_SigintHandledAndForwarded ==
    [][/\ "INT" \in Notified
       /\ shutdownSig' # shutdownSig => (sigPc = "idle" /\ sigPc' = "stop")
       /\ (fwdChan # "none" /\ fwdChan' = "none" /\ child = "running") =>
              forwarded' = forwarded \cup {fwdChan}]_vars

\* stdin is a terminal in raw mode, and a SIGINT sent to the wrapper has
\* both started the shutdown and been forwarded to the child
C22_Witness ==
    /\ stdinTTY
    /\ termRaw
    /\ shutdownSig = "INT"
    /\ "INT" \in forwarded

\* C23: once the configuration has been loaded, a configuration with an
\* empty topic has been rejected (error, exit 1, nothing spawned) if and only
\* if quiet is false for the run, quiet being set by the config file, the
\* environment or the --quiet flag.
C23_EmptyTopicRejectedIffNotQuiet ==
    (cfg.path # "" /\ cfg.topic = "") =>
        /\ cfg.err <=> ~(cfg.quiet \/ flags.quiet)
        /\ cfg.err => (cliPc = "exit" /\ cliExit = [done |-> TRUE, status |-> 1])

\* the argument at position i is the PATH of a --config before it: an
\* argument that does not begin with a dash
IsConfigValue(a, i) ==
    i > 1 /\ a[i - 1] \in {"--config", "-config"} /\ ~HasDashPrefix(a[i])

\* the argument at position i is a wrapper flag: config (with its PATH, as a
\* second argument or after "="), quiet or help, spelled with one dash or two
IsWrapperArg(a, i) ==
    \/ a[i] \in {"--config", "-config", "--quiet", "-quiet", "--help", "-help"}
    \/ a[i] \in {"--config=alt", "-config=alt"}
    \/ IsConfigValue(a, i)

\* the arguments from position i on that are not wrapper flags, in order
RECURSIVE NonWrapperArgs(_, _)
NonWrapperArgs(a, i) ==
    IF i > Len(a) THEN <<>>
    ELSE (IF IsWrapperArg(a, i) THEN <<>> ELSE <<a[i]>>) \o NonWrapperArgs(a, i + 1)

\* C24: the argument list passed to app.Run is the configured default
\* arguments followed by exactly the command-line arguments that are not
\* wrapper flags (--config PATH, --quiet, --help), unmodified and in their
\* original order. A run whose flags do not parse passes no list at all.
C24_ArgsPassedInOrder ==
    cliPc = "run" => args = defaultArgs \o NonWrapperArgs(osArgs, 1)

\* a default argument, then the two arguments around --quiet in their order
C24_Witness ==
    /\ cliPc = "run"
    /\ defaultArgs = <<"-d">>
    /\ osArgs = <<"chat", "--quiet", "-p">>
    /\ args = <<"-d", "chat", "-p">>

\* --help is on the command line together with an argument that is not a
\* wrapper flag
HelpWithOthers ==
    /\ \E i \in 1..Len(osArgs) : osArgs[i] = "--help"
    /\ NonWrapperArgs(osArgs, 1) # <<>>

\* C25: when --help is given together with at least one other argument, the
\* wrapper does not print its own usage and --help is in the argument list
\* passed to the inner program.
C25_HelpPassedThrough ==
    HelpWithOthers =>
        /\ ~usage
        /\ cliPc = "run" => \E j \in 1..Len(args) : args[j] = "--help"

\* the config file the run is to use: the PATH of --config when given, else
\* the default location (CLAUDE_NOTIFY_CONFIG is unset when main starts)
ChosenFile ==
    ReadFile(IF flags.configPath # "" THEN flags.configPath ELSE "default")

\* flag, else environment, else config file, else default
EffectiveQuiet ==
    IF flags.quiet THEN TRUE
    ELSE IF envQuiet # "" THEN envQuiet = "true"
    ELSE IF ChosenFile.exists THEN ChosenFile.quiet
    ELSE DefaultConfig.quiet

\* environment, else config file, else default (there is no flag for it)
EffectiveTopic ==
    IF envTopic # "" THEN envTopic
    ELSE IF ChosenFile.exists THEN ChosenFile.topic
    ELSE DefaultConfig.topic

\* C26: the configuration the run uses holds, for each setting, the
\* command-line flag if given, else the environment variable if set, else
\* the value of the config file, else the default; the config file is the
\* one --config PATH names when the flag is given.
C26_Precedence ==
    /\ cfg.path # "" =>
           cfg.path = (IF flags.configPath # "" THEN flags.configPath ELSE "default")
    /\ cliPc \in {"merge", "run"} =>
           (cfg.quiet = EffectiveQuiet /\ cfg.topic = EffectiveTopic)

\* a step of the output pump inside HandleData that is not a session reset
OutputStep == <<hdPc, cur, todo>>' # <<hdPc, cur, todo>> /\ session' = session

StaleCallbackRuns == inflight' < inflight /\ fresh' = fresh

\* C28: a timer that has been cancelled or superseded (by output, a bell, a
\* forwarded send or a session reset) never causes the sink to be invoked,
\* even when its expiry raced with the cancelling event.
C28_CancelledTimerSilent ==
    [][StaleCallbackRuns => sent' = sent]_vars

\* a started callback obtains bn.mu and runs to its end
CallbackRuns == inflight' < inflight

\* C29: when the timer-expiry callback obtains the gate and finds that the
\* engine has moved to Disabled (by a bell) or to Fired since the timer was
\* scheduled, it returns without invoking the sink and changes nothing.
C29_CallbackRechecks ==
    [][(CallbackRuns /\ (Fired \/ (Disabled /\ backstopSent)))
          => (sent' = sent /\ backstopSent' /\ cause' = cause /\ timer' = timer)]_vars

\* the timer of the current epoch expired after the backstop of that epoch had
\* been sent, its callback has run, and no backstop was sent at or after the
\* timer's deadline
C29_Witness ==
    /\ phase = "running"
    /\ Fired
    /\ timer.set /\ ~timer.active
    /\ inflight = 0
    /\ now >= timer.deadline
    /\ \E i \in Backstops : sent[i].epoch = epoch /\ sent[i].at < timer.deadline
    /\ \A j \in Backstops : sent[j].at < timer.deadline

\* C30: at every instant at most one scheduled (not yet expired and not
\* cancelled) backstop timer exists, across construction, Send, MarkActivity,
\* SetBackstopSent, ResetSession and Close; it is the one bn.timer points to.
C30_AtMostOneLiveTimer ==
    /\ live <= 1
    /\ live = (IF timer.active THEN 1 ELSE 0)

\* a timer was replaced while it was still scheduled, and one timer is
\* scheduled now
C30_Witness ==
    /\ postponed
    /\ epoch >= 2
    /\ timer.active
    /\ live = 1

\* Close found a scheduled timer and stopped it
C30_WitnessClose ==
    phase = "closed" /\ timer.set /\ ~timer.active /\ now < timer.deadline /\ live = 0

\* C31: bn.mu is not held while the sink's send is executing, so a
\* MarkActivity (or SetBackstopSent, ResetSession) call of the output pump
\* that arrives during a send never has to wait for the send to return.
C31_PumpNeverWaitsForSend ==
    ~(PumpNeedsGate /\ SendExecuting)

\* C39: the monitor and the engine never deadlock: under every interleaving
\* of HandleData, HandleScreenClear, timer expiry and Close each call
\* eventually returns, given that the sink's send returns; no goroutine that
\* holds bn.mu ever waits for om.mu.
C39_CallsReturn ==
    /\ (hdPc # "idle") ~> (hdPc = "idle" \/ phase = "exited")
    /\ (bnMu # "free") ~> (bnMu = "free" \/ phase = "exited")
    /\ (inflight > 0) ~> (inflight = 0 \/ phase = "exited")

\* the output pump holds om.mu and waits for bn.mu, which a timer callback
\* holds while the sink's send is executing
C39_Witness ==
    /\ omMu = "pump"
    /\ PumpNeedsGate
    /\ bnMu = "timer"
    /\ phase = "running"

\* number of times notification n was handed to the callback
RECURSIVE Deliveries(_, _)
Deliveries(n, batches) ==
    IF batches = <<>> THEN 0
    ELSE Cardinality({ i \in 1..Len(Head(batches)) : Head(batches)[i] = n })
             + Deliveries(n, Tail(batches))

IsPending(n) == \E i \in 1..Len(pending) : pending[i] = n

\* somebody is on the way to flush: the window timer, a started callback, or
\* a Flush call
FlushComing ==
    bTimer = "scheduled" \/ bOrphans > 0 \/ bInflight > 0 \/ bFlushers > 0

\* C32: every notification passed to Batcher.Add is delivered to the batch
\* callback exactly once under any interleaving of Add, window-timer expiry
\* and Flush: it is either delivered once, or still pending with a flush on
\* its way, never both; and the callback never gets an empty batch.
C32_DeliveredExactlyOnce ==
    /\ \A n \in 1..added :
          /\ Deliveries(n, delivered) <= 1
          /\ IsPending(n) <=> Deliveries(n, delivered) = 0
          /\ IsPending(n) => FlushComing
    /\ \A i \in 1..Len(delivered) : delivered[i] # <<>>

\* all notifications were delivered, in two or more batches, one of them by a
\* flush that left a scheduled timer behind
C32_Witness ==
    /\ added = MaxAdds
    /\ pending = <<>>
    /\ Len(delivered) >= 2
    /\ bFlushes > 0
    /\ bOrphans > 0

\* no refill period has elapsed since the limiter was created
NoRefillYet == resets = 0 /\ now < refillRate

\* C33: for a token bucket created with capacity C and no refill period
\* elapsed, of N >= C concurrent Allow calls exactly C return true; the token
\* count never exceeds C after refills and never goes below zero.
C33_ExactlyCapacity ==
    /\ tokens >= 0
    /\ tokens <= capacity
    /\ (NoRefillYet /\ calls >= capacity) => allowed = capacity

\* more calls than tokens before the first refill period has elapsed
C33_Witness ==
    /\ NoRefillYet
    /\ capacity = MaxCapacity
    /\ calls > capacity
    /\ allowed = capacity
    /\ tokens = 0

\* a refill of several periods found the bucket one short of full
C33_WitnessRefill ==
    /\ calls >= 2
    /\ lastRefill = now
    /\ now >= 2 * refillRate
    /\ tokens = capacity - 1
    /\ capacity > 0

\* C34: a single DetectSequences call invokes HandleScreenClear at most once,
\* however many clear sequences the data contains, and a clear sequence split
\* across two consecutive calls is detected on the call that completes it.
C34_OncePerCallAndSplit ==
    /\ dsFired <= 1
    /\ foundClear(dsData) => dsFired = 1
    /\ foundClear(dsPrev \o dsData) => dsFired = 1

\* ESC [ 2 J arrived in two halves after enough text to make the detector
\* cut its buffer, and the second half triggered the handler
C34_Witness ==
    /\ dsPrev = <<ESC, 91>>
    /\ dsData = <<50, 74>>
    /\ Len(dsStream) > KeepLen
    /\ ~foundClear(dsPrev)
    /\ ~foundClear(dsData)
    /\ dsFired = 1

\* two sequences in one call count once
C34_WitnessTwo ==
    dsData = <<ESC, 91, 50, 74, ESC, 99>> /\ dsFired = 1 /\ screenClearCount = 1

\* the places of the stream at which a clear sequence begins
Occurrences(b) ==
    { i \in 1..Len(b) :
        \E seq \in screenClearSequences :
            /\ i + Len(seq) - 1 <= Len(b)
            /\ SubSeq(b, i, i + Len(seq) - 1) = seq }

\* C35: each occurrence of a screen-clear sequence in the output stream
\* produces at most one HandleScreenClear call (one session reset): a later
\* DetectSequences call whose data neither contains nor completes a clear
\* sequence does not invoke the handler.
C35_OneResetPerOccurrence ==
    /\ screenClearCount <= Cardinality(Occurrences(dsStream))
    /\ ~foundClear(dsPrev \o dsData) => dsFired = 0

\* the sink is handed a backstop notification in this step
BackstopHandedOver ==
    /\ Len(sent') = Len(sent) + 1
    /\ sent'[Len(sent')].kind = "backstop"

\* C36: after BackstopNotifier.Close() has returned the sink is never invoked
\* with a backstop notification, even if a timer expiry was in flight at the
\* time of Close or output activity is reported afterwards.
C36_SilentAfterClose ==
    [][(phase = "closed" /\ wrapped) => ~BackstopHandedOver]_vars

\* C37: outputReader.Read(p) never returns a count greater than len(p), and
\* the count it returns is the number of bytes it stored in p in that call.
C37_CountWithinBuffer ==
    /\ rdN <= rdLenP
    /\ rdN = Len(rdStored)

\* C38: when the wrapper refuses to start because the self-wrap marker is
\* set, no notification of any kind, the startup notification included, is
\* handed to the sink.
C38_RefusalSendsNothing ==
    (marker /\ startFailed) => sent = <<>>

\* C40: once the child has exited, Wait can return at once: cmd.Wait reaps
\* the child and the PTY master is closed whatever the stdin copy is doing,
\* also while that copy is still blocked reading the controlling terminal;
\* p.wg holds only the resize monitor, never the copies of CopyIO.
C40_WaitIgnoresInputPump ==
    /\ (~exit.done /\ mainPc = "wait" /\ child = "dead") => ENABLED MainReap
    /\ (child = "reaped") => ~ptyOpen

\* Wait has returned and the master is closed while io.Copy(p.pty, stdin)
\* is still inside its read of the terminal
C40_Witness ==
    /\ child = "reaped"
    /\ ~ptyOpen
    /\ mainPc \in {"stop", "exit"}
    /\ inPump = "running"
    /\ ~exit.done

====
